---------------------------- MODULE Spec2Model ----------------------------
(***************************************************************************)
(* Verification model of the on-call-agent repository: the word-window     *)
(* chunker (lib/embeddings.ts), the RAG formatter (lib/document-           *)
(* processor.ts) and the chat route handler (app/api/chat/route.ts).       *)
(*                                                                         *)
(* Strings.  A JavaScript string that the code inspects character by       *)
(* character (split, trim, regular expressions) is a sequence of           *)
(* one-character strings.  A string that the code only concatenates and    *)
(* tests for emptiness (prompts, formatted context) is a sequence of       *)
(* non-empty pieces: literal pieces of the template and field values; the  *)
(* empty string is << >> in both representations.                          *)
(***************************************************************************)
EXTENDS Integers, Sequences, FiniteSets, TLC

-----------------------------------------------------------------------------
(* Bounds of the model *)

\* longest text handed to chunkText
MaxTextLen == 7
\* largest chunkSize argument handed to chunkText
MaxChunkSize == 3
\* longest document content handed to createDocumentChunks
MaxDocLen == 6
\* createDocumentChunks calls chunkText(section.trim(), 500, 50); the model
\* scales the two numbers down so that sections of more than one window fit
\* into the bounded contents (the overlap stays below the chunk size)
DocChunkSize == 2
DocOverlap == 1
\* longest result list handed to formatDocumentForRAG directly
MaxResults == 2
\* most iterations of the loop of chunkText the model follows (a call whose
\* window start advances needs at most one per word)
MaxIterations == 9

-----------------------------------------------------------------------------
(* Program constants *)

\* SIMILARITY_THRESHOLD = 0.5; scores are counted in hundredths
SIMILARITY_THRESHOLD == 50
\* the topK argument of searchSimilar(message, 2) in the chat handler
TopK == 2

-----------------------------------------------------------------------------
(* Character-level strings *)

\* characters matched by \s and removed by String.prototype.trim
Whitespace == {" ", "\n"}

\* all character strings over alphabet A of length 0..n
StringsUpTo(A, n) == UNION {[1..k -> A] : k \in 0..n}

Min(a, b) == IF a < b THEN a ELSE b

RECURSIVE Split(_)
\* text.split(' '): the pieces between single spaces; ''.split(' ') is ['']
Split(s) ==
  IF s = << >> THEN << << >> >>
  ELSE LET r == Split(Tail(s))
       IN  IF Head(s) = " "
           THEN << << >> >> \o r
           ELSE << <<Head(s)>> \o Head(r) >> \o Tail(r)

RECURSIVE Join(_)
\* words.join(' ')
Join(ws) ==
  IF ws = << >> THEN << >>
  ELSE IF Len(ws) = 1 THEN ws[1]
  ELSE ws[1] \o <<" ">> \o Join(Tail(ws))

\* words.slice(from, to): elements from..to-1 (0-based); a negative index
\* counts from the end, and both ends are clamped to 0..length
Slice(ws, from, to) ==
  LET clamp(k) == IF k < 0
                  THEN (IF Len(ws) + k < 0 THEN 0 ELSE Len(ws) + k)
                  ELSE Min(k, Len(ws))
  IN  SubSeq(ws, clamp(from) + 1, clamp(to))

RECURSIVE TrimStart(_)
TrimStart(s) ==
  IF s # << >> /\ Head(s) \in Whitespace THEN TrimStart(Tail(s)) ELSE s

RECURSIVE TrimEnd(_)
TrimEnd(s) ==
  IF s # << >> /\ s[Len(s)] \in Whitespace
  THEN TrimEnd(SubSeq(s, 1, Len(s) - 1)) ELSE s

\* String.prototype.trim
Trim(s) == TrimEnd(TrimStart(s))

-----------------------------------------------------------------------------
(* chunkText (lib/embeddings.ts) *)

\* the loop increment `i += chunkSize - overlap` without the overlap
NextStart_NoOverlap(i, chunkSize, overlap) == i + chunkSize

\* a loop increment that leaves the window start where it is
NextStart_Stalls(i, chunkSize, overlap) == i

\* the loop increment `i += chunkSize - overlap`
NextStart(i, chunkSize, overlap) == i + chunkSize - overlap

\* the window pushed by one iteration: words.slice(i, i + chunkSize).join(' ')
Window(words, i, chunkSize) == Join(Slice(words, i, i + chunkSize))

\* a break test that takes a window ending one word early for the last
LastWindow_OneEarly(words, i, chunkSize) == i + chunkSize >= Len(words) - 1

\* the break test at the end of an iteration
LastWindow(words, i, chunkSize) == i + chunkSize >= Len(words)

RECURSIVE chunkLoop(_, _, _, _, _)
\* the for loop of chunkText from window start i with the chunks pushed so far
chunkLoop(words, chunkSize, overlap, i, chunks) ==
  IF i < Len(words)
  THEN LET pushed == Append(chunks, Window(words, i, chunkSize))
       IN  IF LastWindow(words, i, chunkSize)
           THEN pushed
           ELSE chunkLoop(words, chunkSize, overlap,
                          NextStart(i, chunkSize, overlap), pushed)
  ELSE chunks

\* chunkText(text, chunkSize, overlap) as a function of its arguments
\* (defined for 0 <= overlap < chunkSize, where the loop terminates)
chunkText(text, chunkSize, overlap) ==
  LET words == Split(text)
  IN  IF Len(words) <= chunkSize
      THEN <<text>>
      ELSE chunkLoop(words, chunkSize, overlap, 0, << >>)

-----------------------------------------------------------------------------
(* createDocumentChunks (lib/embeddings.ts) *)

\* an optional value: undefined is << >>, a defined value x is <<x>>
None == << >>
Some(x) == <<x>>

Digits == <<"0", "1", "2", "3", "4", "5", "6", "7", "8", "9">>

RECURSIVE NumStr(_)
\* the decimal digits of a number inside a template string
NumStr(n) ==
  IF n < 10 THEN <<Digits[n + 1]>>
  ELSE NumStr(n \div 10) \o <<Digits[(n % 10) + 1]>>

\* ^ with the m flag: the start of the string or just after a newline
IsLineStart(s, p) == p = 1 \/ s[p - 1] = "\n"

\* #{1,3}\s matches at p: one to three '#' followed by a whitespace character
HashesThenSpace(s, p) ==
  \E k \in 1..3 :
    /\ p + k <= Len(s)
    /\ \A j \in 0..(k - 1) : s[p + j] = "#"
    /\ s[p + k] \in Whitespace

\* the lookahead (?=^#{1,3}\s) succeeds at position p
HeaderAt(s, p) == p <= Len(s) /\ IsLineStart(s, p) /\ HashesThenSpace(s, p)

RECURSIVE splitFrom(_, _, _)
\* String.prototype.split with the zero-width header pattern: p is the start
\* of the current piece, q the position under test; a match at the start of
\* the current piece does not split
splitFrom(s, p, q) ==
  IF q > Len(s) THEN << SubSeq(s, p, Len(s)) >>
  ELSE IF q > p /\ HeaderAt(s, q)
       THEN << SubSeq(s, p, q - 1) >> \o splitFrom(s, q, q + 1)
       ELSE splitFrom(s, p, q + 1)

\* content.split(/(?=^#{1,3}\s)/m)
splitSections(content) == splitFrom(content, 1, 1)

\* first position >= p of s that holds no whitespace, Len(s) + 1 if none
RECURSIVE SkipSpace(_, _)
SkipSpace(s, p) ==
  IF p <= Len(s) /\ s[p] \in Whitespace THEN SkipSpace(s, p + 1) ELSE p

\* first position >= p of s that holds a newline, Len(s) + 1 if none
RECURSIVE LineEnd(_, _)
LineEnd(s, p) ==
  IF p <= Len(s) /\ s[p] # "\n" THEN LineEnd(s, p + 1) ELSE p

\* number of '#' characters from position p on
RECURSIVE HashRun(_, _)
HashRun(s, p) ==
  IF p <= Len(s) /\ s[p] = "#" THEN 1 + HashRun(s, p + 1) ELSE 0

\* where group 2 of /^(#{1,3})\s+(.+)/m starts for a match at p, 0 if the
\* pattern does not match at p: \s+ takes the whole whitespace run and (.+)
\* starts behind it; if the run reaches the end of the string, \s+ gives back
\* whitespace until (.+) can start on a character that is no newline
TitleStart(s, p) ==
  LET h == HashRun(s, p)
      w == p + h
      e == SkipSpace(s, w)
      back == {j \in (w + 1)..Len(s) : s[j] # "\n"}
  IN  IF ~(IsLineStart(s, p) /\ h \in 1..3 /\ w <= Len(s)
             /\ s[w] \in Whitespace)
      THEN 0
      ELSE IF e <= Len(s) THEN e
      ELSE IF back = {} THEN 0
      ELSE CHOOSE j \in back : \A i \in back : i <= j

\* section.match(/^(#{1,3})\s+(.+)/m): sectionMatch[2].trim() of the first
\* match, undefined without a match
sectionTitleOf(section) ==
  LET P == {p \in 1..Len(section) : TitleStart(section, p) > 0}
  IN  IF P = {} THEN None
      ELSE LET p == CHOOSE x \in P : \A y \in P : x <= y
               g == TitleStart(section, p)
           IN  Some(Trim(SubSeq(section, g, LineEnd(section, g) - 1)))

\* chunkText(section.trim(), 500, 50) with the untrimmed section
SectionChunks_NoTrim(section) == chunkText(section, DocChunkSize, DocOverlap)

\* chunkText(section.trim(), 500, 50)
SectionChunks(section) == chunkText(Trim(section), DocChunkSize, DocOverlap)

\* the template `${filename}_${sectionIndex}_${chunkIndex}`
ChunkId(filename, sectionIndex, chunkIndex) ==
  <<filename, "_">> \o NumStr(sectionIndex) \o <<"_">> \o NumStr(chunkIndex)

\* the pushed object with the id numbered by the chunks pushed so far
MakeChunk_IdFromCount(filename, title, sectionTitle, sectionIndex, chunkIndex, chunk, pushed) ==
  [id |-> ChunkId(filename, sectionIndex, pushed),
   content |-> chunk,
   metadata |-> [filename |-> filename, title |-> title,
                 section |-> sectionTitle,
                 chunkIndex |-> pushed, totalChunks |-> 0]]

\* the pushed object with metadata.chunkIndex taken from the window ordinal
MakeChunk_WindowIndex(filename, title, sectionTitle, sectionIndex, chunkIndex, chunk, pushed) ==
  [id |-> ChunkId(filename, sectionIndex, chunkIndex),
   content |-> chunk,
   metadata |-> [filename |-> filename, title |-> title,
                 section |-> sectionTitle,
                 chunkIndex |-> chunkIndex, totalChunks |-> 0]]

\* the object pushed for one non-empty window; pushed is chunks.length
MakeChunk(filename, title, sectionTitle, sectionIndex, chunkIndex, chunk, pushed) ==
  [id |-> ChunkId(filename, sectionIndex, chunkIndex),
   content |-> chunk,
   metadata |-> [filename |-> filename, title |-> title,
                 section |-> sectionTitle,
                 chunkIndex |-> pushed, totalChunks |-> 0]]

RECURSIVE pushWindows(_, _, _, _, _, _, _)
\* textChunks.forEach((chunk, chunkIndex) => ...) from window chunkIndex on
pushWindows(chunks, textChunks, chunkIndex, filename, title, sectionTitle, sectionIndex) ==
  IF chunkIndex >= Len(textChunks) THEN chunks
  ELSE LET chunk == textChunks[chunkIndex + 1]
           next == IF Len(Trim(chunk)) > 0
                   THEN Append(chunks,
                               MakeChunk(filename, title, sectionTitle,
                                         sectionIndex, chunkIndex, chunk,
                                         Len(chunks)))
                   ELSE chunks
       IN  pushWindows(next, textChunks, chunkIndex + 1, filename, title,
                       sectionTitle, sectionIndex)

RECURSIVE pushSections(_, _, _, _, _)
\* sections.forEach((section, sectionIndex) => ...) from section sectionIndex on
pushSections(chunks, sections, sectionIndex, filename, title) ==
  IF sectionIndex >= Len(sections) THEN chunks
  ELSE LET section == sections[sectionIndex + 1]
       IN  pushSections(
             pushWindows(chunks, SectionChunks(section), 0, filename, title,
                         sectionTitleOf(section), sectionIndex),
             sections, sectionIndex + 1, filename, title)

\* chunks.forEach(chunk => { chunk.metadata.totalChunks = chunks.length })
backfillTotal(chunks) ==
  [k \in 1..Len(chunks) |->
     [chunks[k] EXCEPT !.metadata.totalChunks = Len(chunks)]]

\* createDocumentChunks(content, filename, title)
createDocumentChunks(content, filename, title) ==
  backfillTotal(pushSections(<< >>, splitSections(content), 0, filename, title))

-----------------------------------------------------------------------------
(* formatDocumentForRAG (lib/document-processor.ts) *)

\* a string value spliced into a template: the empty string adds nothing
Lit(str) == IF str = "" THEN << >> ELSE <<str>>

\* the truthiness test `if (metadata.section)` on an optional string
Truthy(opt) == opt # None /\ opt[1] # ""

\* 'Based on the following incident response documentation:\n\n'
Preamble ==
  <<"Based on the following incident response documentation:", "\n", "\n">>

\* the text appended for one result with the section line written always
FormatResult_AlwaysSection(result, index) ==
  <<"## Document ">> \o NumStr(index + 1) \o <<": ">>
    \o Lit(result.metadata.title) \o <<"\n">>
    \o <<"### ">>
    \o (IF result.metadata.section # None
        THEN Lit(result.metadata.section[1]) ELSE <<"undefined">>)
    \o <<"\n">>
    \o Lit(result.metadata.content) \o <<"\n", "\n">>
    \o <<"*Source: ">> \o Lit(result.metadata.filename) \o <<"*", "\n", "\n">>

\* the text appended for the result at 0-based position index
FormatResult(result, index) ==
  <<"## Document ">> \o NumStr(index + 1) \o <<": ">>
    \o Lit(result.metadata.title) \o <<"\n">>
    \o (IF Truthy(result.metadata.section)
        THEN <<"### ">> \o Lit(result.metadata.section[1]) \o <<"\n">>
        ELSE << >>)
    \o Lit(result.metadata.content) \o <<"\n", "\n">>
    \o <<"*Source: ">> \o Lit(result.metadata.filename) \o <<"*", "\n", "\n">>

RECURSIVE formatFrom(_, _, _)
\* searchResults.forEach((result, index) => ...) from position index on
formatFrom(formattedContext, searchResults, index) ==
  IF index >= Len(searchResults) THEN formattedContext
  ELSE formatFrom(formattedContext
                    \o FormatResult(searchResults[index + 1], index),
                  searchResults, index + 1)

\* formatDocumentForRAG(searchResults)
formatDocumentForRAG(searchResults) ==
  IF Len(searchResults) = 0 THEN << >>
  ELSE formatFrom(Preamble, searchResults, 0)

-----------------------------------------------------------------------------
(* searchSimilar's result conversion and the chat handler's helpers *)

\* match.score || 0 on an optional number
ScoreOrZero(opt) == IF opt = None THEN 0 ELSE opt[1]

\* (x as string) || undefined on an optional string
StringOrUndefined(opt) == IF Truthy(opt) THEN opt ELSE None

\* one element of searchResponse.matches converted to a SearchResult
toSearchResult(match) ==
  [id |-> match.id,
   score |-> ScoreOrZero(match.score),
   metadata |-> [filename |-> match.metadata.filename,
                 title |-> match.metadata.title,
                 content |-> match.metadata.content,
                 section |-> StringOrUndefined(match.metadata.section)]]

\* searchResponse.matches?.map(...) || []
toSearchResults(matches) == [k \in 1..Len(matches) |-> toSearchResult(matches[k])]

\* `!message` on the message field of the parsed body (absent or '')
MessageMissing_OnlyAbsent(body) == body.message = None

\* `!message` on the message field of the parsed body (absent or '')
MessageMissing(body) == ~Truthy(body.message)

\* the filter predicate with a strict comparison
IsRelevant_Strict(result) == result.score > SIMILARITY_THRESHOLD

\* the filter predicate result.score >= SIMILARITY_THRESHOLD
IsRelevant(result) == result.score >= SIMILARITY_THRESHOLD

\* searchResults.filter(result => result.score >= SIMILARITY_THRESHOLD)
relevantOf(searchResults) == SelectSeq(searchResults, IsRelevant)

\* the citation projected from one result
toSource(result) ==
  [filename |-> result.metadata.filename,
   title |-> result.metadata.title,
   section |-> result.metadata.section]

\* relevantResults.map(result => ({filename, title, section}))
toSources(results) == [k \in 1..Len(results) |-> toSource(results[k])]

RECURSIVE JoinLines(_)
\* lines.join('\n')
JoinLines(lines) ==
  IF lines = << >> THEN << >>
  ELSE IF Len(lines) = 1 THEN lines[1]
  ELSE lines[1] \o <<"\n">> \o JoinLines(Tail(lines))

\* the no-context instructions of createPromptWithoutContext
NoContextNote ==
  "Note: No relevant incident response procedures were found in the knowledge base. Please provide general assistance."

\* createPromptWithContext(context, message)
createPromptWithContext(context, message) ==
  JoinLines(<< <<"SYSTEM_PROMPT">>, << >>, context, << >>,
               <<"User Question:", " ">> \o Lit(message), << >>,
               <<"RAG_INSTRUCTIONS">> >>)

\* createPromptWithoutContext(message)
createPromptWithoutContext(message) ==
  JoinLines(<< <<"SYSTEM_PROMPT">>, << >>,
               <<"User Question:", " ">> \o Lit(message), << >>,
               <<NoContextNote>> >>)

\* the prompt chosen without looking at the context
enhancedPromptOf_NeverContext(context, message) ==
  createPromptWithoutContext(message)

\* context ? createPromptWithContext(context, message)
\*         : createPromptWithoutContext(message)
enhancedPromptOf(context, message) ==
  IF context # << >>
  THEN createPromptWithContext(context, message)
  ELSE createPromptWithoutContext(message)

\* the body of the 200 response: sources is left out when the list is empty
okBody(text, sources) ==
  IF Len(sources) > 0
  THEN [response |-> text, sources |-> sources]
  ELSE [response |-> text]

-----------------------------------------------------------------------------
VARIABLES
  ctPc,        \* chunkText call: "call", "loop" or "returned"
  ctText,      \* argument text
  ctSize,      \* argument chunkSize
  ctOverlap,   \* argument overlap
  ctWords,     \* local words
  ctI,         \* loop variable i
  ctChunks,    \* local chunks
  ctResult     \* the returned array

ctVars == <<ctPc, ctText, ctSize, ctOverlap, ctWords, ctI, ctChunks, ctResult>>

VARIABLES
  dcPc,        \* createDocumentChunks calls: "call", "first" or "second"
  dcContent,   \* argument content
  dcFilename,  \* argument filename
  dcTitle,     \* argument title of the first call
  dcChunks,    \* the array returned by the first call
  dcTitle2,    \* argument title of the second call
  dcAgain      \* the array returned by the second call

dcVars == <<dcPc, dcContent, dcFilename, dcTitle, dcChunks, dcTitle2, dcAgain>>

VARIABLES
  fmPc,        \* formatDocumentForRAG call: "call" or "returned"
  fmResults,   \* argument searchResults
  fmOutput     \* the returned string

fmVars == <<fmPc, fmResults, fmOutput>>

VARIABLES
  chPc,        \* chat POST handler: "idle", "search", "generate" or "done"
  chRequest,   \* the request: whether its body parses, and its message field
  chSearchLog, \* the searchSimilar calls issued, in order
  chSearch,    \* how the search ended: kind "none", "ok" or "error"
  chContext,   \* local context
  chSources,   \* local sources
  chLlmLog,    \* the prompts handed to generateText, in order
  chLlm,       \* how the generateText call ended: kind "none", "ok" or "error"
  chResponses  \* the responses returned by the handler, in order

chVars == <<chPc, chRequest, chSearchLog, chSearch, chContext, chSources,
            chLlmLog, chLlm, chResponses>>

VARIABLES
  vsPinecone,    \* module variable pinecone: None (null) or Some(client number)
  vsConstructed, \* number of `new Pinecone(...)` constructions so far
  vsIndex,       \* module variable index: None (null) or Some(handle number)
  vsHandles,     \* number of pc.index(INDEX_NAME) handles created so far
  envApiKey,     \* whether process.env.PINECONE_API_KEY is set
  envEmbedding,  \* which generateEmbedding is built in: "hash" or "openai"
  stIndex,       \* the store's index 'kma-documents': "absent", "creating"
                 \* (listed, not ready) or "ready"
  stDim,         \* the dimension the store's index was created with
  stRecords,     \* the records the store's index holds
  stSteady,      \* the store answers every describeIndex with ready from
                 \* now on
  stLog,         \* the calls issued to the store, the file system and the
                 \* embedding client, in order
  fsFiles,       \* the knowledge-base directory: its entries in readdir order
  ix             \* per process, the stack of active calls (last is running)

vsVars == <<vsPinecone, vsConstructed, vsIndex, vsHandles, envApiKey,
            envEmbedding, stIndex, stDim, stRecords, stSteady, stLog, fsFiles,
            ix>>

vars == <<ctVars, dcVars, fmVars, chVars, vsVars>>

\* 'one two three four five' with every word shortened to one letter
ExampleText == <<"a", " ", "b", " ", "c", " ", "d", " ", "e">>

ChunkTexts == StringsUpTo({"a", "b", " "}, MaxTextLen) \cup {ExampleText}

ctIdle ==
  /\ ctPc = "idle" /\ ctText = << >> /\ ctSize = 0 /\ ctOverlap = 0
  /\ ctWords = << >> /\ ctI = 0 /\ ctChunks = << >> /\ ctResult = << >>

dcIdle ==
  /\ dcPc = "idle" /\ dcContent = << >> /\ dcFilename = "" /\ dcTitle = ""
  /\ dcChunks = << >> /\ dcTitle2 = "" /\ dcAgain = << >>

fmIdle == fmPc = "idle" /\ fmResults = << >> /\ fmOutput = << >>

chIdle ==
  /\ chPc = "off"
  /\ chRequest = [json |-> FALSE, message |-> None]
  /\ chSearchLog = << >>
  /\ chSearch = [kind |-> "none", at |-> "", matches |-> << >>]
  /\ chContext = << >> /\ chSources = << >> /\ chLlmLog = << >>
  /\ chLlm = [kind |-> "none", text |-> ""]
  /\ chResponses = << >>

\* the processes of the indexing model: request handlers or callers
Procs == {1, 2}

vsIdle ==
  /\ vsPinecone = << >> /\ vsConstructed = 0 /\ vsIndex = << >>
  /\ vsHandles = 0 /\ envApiKey = FALSE /\ envEmbedding = "off"
  /\ stIndex = "absent" /\ stDim = 0 /\ stRecords = {} /\ stSteady = FALSE
  /\ stLog = << >>
  /\ fsFiles = << >> /\ ix = [p \in Procs |-> << >>]

InitChunk ==
  /\ ctPc = "call"
  /\ ctText \in ChunkTexts
  /\ ctSize \in 1..MaxChunkSize
  /\ ctOverlap \in 0..(ctSize - 1)
  /\ ctWords = << >> /\ ctI = 0 /\ ctChunks = << >> /\ ctResult = << >>
  /\ dcIdle /\ fmIdle /\ chIdle /\ vsIdle

\* lines 39-44: the text has at most chunkSize words and is returned whole
ChunkTextReturnWhole ==
  /\ ctPc = "call"
  /\ Len(Split(ctText)) <= ctSize
  /\ ctWords' = Split(ctText)
  /\ ctResult' = <<ctText>>
  /\ ctPc' = "returned"
  /\ UNCHANGED <<ctText, ctSize, ctOverlap, ctI, ctChunks>>
  /\ UNCHANGED <<dcVars, fmVars, chVars, vsVars>>

\* lines 39-46: more than chunkSize words, the loop is entered with i = 0
ChunkTextEnterLoop ==
  /\ ctPc = "call"
  /\ Len(Split(ctText)) > ctSize
  /\ ctWords' = Split(ctText)
  /\ ctI' = 0
  /\ ctChunks' = << >>
  /\ ctPc' = "loop"
  /\ UNCHANGED <<ctText, ctSize, ctOverlap, ctResult>>
  /\ UNCHANGED <<dcVars, fmVars, chVars, vsVars>>

\* lines 46-55: one test of the loop condition and, if it holds, one iteration
ChunkTextIterate ==
  /\ ctPc = "loop"
  /\ Len(ctChunks) < MaxIterations
  /\ IF ctI < Len(ctWords)
     THEN LET pushed == Append(ctChunks, Window(ctWords, ctI, ctSize))
          IN  /\ ctChunks' = pushed
              /\ IF LastWindow(ctWords, ctI, ctSize)
                 THEN /\ ctResult' = pushed
                      /\ ctPc' = "returned"
                      /\ ctI' = ctI
                 ELSE /\ ctI' = NextStart(ctI, ctSize, ctOverlap)
                      /\ UNCHANGED <<ctPc, ctResult>>
     ELSE /\ ctResult' = ctChunks
          /\ ctPc' = "returned"
          /\ UNCHANGED <<ctI, ctChunks>>
  /\ UNCHANGED <<ctText, ctSize, ctOverlap, ctWords>>
  /\ UNCHANGED <<dcVars, fmVars, chVars, vsVars>>

NextChunk == ChunkTextReturnWhole \/ ChunkTextEnterLoop \/ ChunkTextIterate

SpecChunk == InitChunk /\ [][NextChunk]_vars

-----------------------------------------------------------------------------
(* Calls of createDocumentChunks: SpecDoc *)

DocContents == StringsUpTo({"a", " ", "#", "\n"}, MaxDocLen)
Filenames == {"f.md", "g.md"}
Titles == {"T1", "T2"}

InitDoc ==
  /\ dcPc = "call"
  /\ dcContent \in DocContents
  /\ dcFilename \in Filenames
  /\ dcTitle \in Titles
  /\ dcChunks = << >> /\ dcTitle2 = "" /\ dcAgain = << >>
  /\ ctIdle /\ fmIdle /\ chIdle /\ vsIdle

\* createDocumentChunks(content, filename, title) is called and returns
CreateChunks ==
  /\ dcPc = "call"
  /\ dcChunks' = createDocumentChunks(dcContent, dcFilename, dcTitle)
  /\ dcPc' = "first"
  /\ UNCHANGED <<dcContent, dcFilename, dcTitle, dcTitle2, dcAgain>>
  /\ UNCHANGED <<ctVars, fmVars, chVars, vsVars>>

\* the same content is chunked again under the same filename
CreateChunksAgain ==
  /\ dcPc = "first"
  /\ \E t \in Titles :
       /\ dcTitle2' = t
       /\ dcAgain' = createDocumentChunks(dcContent, dcFilename, t)
  /\ dcPc' = "second"
  /\ UNCHANGED <<dcContent, dcFilename, dcTitle, dcChunks>>
  /\ UNCHANGED <<ctVars, fmVars, chVars, vsVars>>

NextDoc == CreateChunks \/ CreateChunksAgain

SpecDoc == InitDoc /\ [][NextDoc]_vars

-----------------------------------------------------------------------------
(* Calls of formatDocumentForRAG: SpecFormat *)

\* sequences over S of length 0..n
SeqsUpTo(S, n) == UNION {[1..k -> S] : k \in 0..n}

Sections == {None, Some(""), Some("Steps")}
Contents == {"restart the consumer", "check the dashboard"}

\* the results a caller can hand to formatDocumentForRAG
FormatInputs ==
  [score : {80},
   metadata : [filename : Filenames, title : Titles, content : Contents,
               section : Sections]]

InitFormat ==
  /\ fmPc = "call"
  /\ fmResults \in SeqsUpTo(FormatInputs, MaxResults)
  /\ fmOutput = << >>
  /\ ctIdle /\ dcIdle /\ chIdle /\ vsIdle

\* formatDocumentForRAG(searchResults) is called and returns
FormatCall ==
  /\ fmPc = "call"
  /\ fmOutput' = formatDocumentForRAG(fmResults)
  /\ fmPc' = "returned"
  /\ UNCHANGED fmResults
  /\ UNCHANGED <<ctVars, dcVars, chVars, vsVars>>

NextFormat == FormatCall

SpecFormat == InitFormat /\ [][NextFormat]_vars

-----------------------------------------------------------------------------
(* POST /api/chat (app/api/chat/route.ts): SpecChat *)

Messages == {"q1", "q2"}
ModelTexts == {"answer one", "answer two"}

\* what the vector store can answer for one match: the score may be missing,
\* the section metadata may be missing or '' (a chunk without section title
\* is stored with section '')
RawMatches ==
  [id : {"f.md_0_0"},
   score : {None, Some(49), Some(50), Some(90)},
   metadata : [filename : Filenames, title : Titles,
               content : {"restart the consumer"},
               section : Sections]]

ChatRequests ==
  {[json |-> FALSE, message |-> None]}
    \cup [json : {TRUE}, message : {None, Some("")} \cup {Some(m) : m \in Messages}]

ErrorResponse(status, text) == [status |-> status, body |-> [error |-> text]]

InitChat ==
  /\ chPc = "idle"
  /\ chRequest \in ChatRequests
  /\ chSearchLog = << >>
  /\ chSearch = [kind |-> "none", at |-> "", matches |-> << >>]
  /\ chContext = << >> /\ chSources = << >> /\ chLlmLog = << >>
  /\ chLlm = [kind |-> "none", text |-> ""]
  /\ chResponses = << >>
  /\ ctIdle /\ dcIdle /\ fmIdle /\ vsIdle

\* line 14 throws: request.json() rejects, the outer catch answers 500
ChatParseFails ==
  /\ chPc = "idle"
  /\ ~chRequest.json
  /\ chResponses' = Append(chResponses,
                           ErrorResponse(500, "Failed to generate response"))
  /\ chPc' = "done"
  /\ UNCHANGED <<chRequest, chSearchLog, chSearch, chContext, chSources,
                 chLlmLog, chLlm>>
  /\ UNCHANGED <<ctVars, dcVars, fmVars, vsVars>>

\* lines 14-18: the message is missing, the handler answers 400
ChatRejectMissing ==
  /\ chPc = "idle"
  /\ chRequest.json
  /\ MessageMissing(chRequest)
  /\ chResponses' = Append(chResponses,
                           ErrorResponse(400, "Message is required"))
  /\ chPc' = "done"
  /\ UNCHANGED <<chRequest, chSearchLog, chSearch, chContext, chSources,
                 chLlmLog, chLlm>>
  /\ UNCHANGED <<ctVars, dcVars, fmVars, vsVars>>

\* lines 14-26: the message is there, searchSimilar(message, 2) is called
ChatStartSearch ==
  /\ chPc = "idle"
  /\ chRequest.json
  /\ ~MessageMissing(chRequest)
  /\ chSearchLog' = Append(chSearchLog,
                           [query |-> chRequest.message[1], topK |-> TopK])
  /\ chPc' = "search"
  /\ UNCHANGED <<chRequest, chSearch, chContext, chSources, chLlmLog, chLlm,
                 chResponses>>
  /\ UNCHANGED <<ctVars, dcVars, fmVars, vsVars>>

\* a failed search answered with the generic 500 of the outer catch
SearchFails_Surfaced ==
  /\ chPc = "search"
  /\ \E at \in {"embedding", "client", "query"} :
       chSearch' = [kind |-> "error", at |-> at, matches |-> << >>]
  /\ chResponses' = Append(chResponses,
                           ErrorResponse(500, "Failed to generate response"))
  /\ chPc' = "done"
  /\ UNCHANGED <<chRequest, chSearchLog, chContext, chSources, chLlmLog, chLlm>>
  /\ UNCHANGED <<ctVars, dcVars, fmVars, vsVars>>

\* lines 26-58 when searchSimilar resolves: the matches are converted, the
\* results filtered and formatted, and generateText is called with the prompt
SearchReturns ==
  /\ chPc = "search"
  /\ \E matches \in SeqsUpTo(RawMatches, TopK) :
       LET searchResults == toSearchResults(matches)
           relevantResults == relevantOf(searchResults)
           context == IF Len(relevantResults) > 0
                      THEN formatDocumentForRAG(relevantResults) ELSE << >>
           sources == IF Len(relevantResults) > 0
                      THEN toSources(relevantResults) ELSE << >>
       IN  /\ chSearch' = [kind |-> "ok", at |-> "", matches |-> matches]
           /\ chContext' = context
           /\ chSources' = sources
           /\ chLlmLog' = Append(chLlmLog,
                                 enhancedPromptOf(context, chRequest.message[1]))
  /\ chPc' = "generate"
  /\ UNCHANGED <<chRequest, chSearchLog, chLlm, chResponses>>
  /\ UNCHANGED <<ctVars, dcVars, fmVars, vsVars>>

\* lines 26-58 when searchSimilar rejects (the embedding request, the client
\* construction or the store query failed): the inner catch logs the error
\* and generateText is called with the prompt built from the empty context
SearchFails ==
  /\ chPc = "search"
  /\ \E at \in {"embedding", "client", "query"} :
       chSearch' = [kind |-> "error", at |-> at, matches |-> << >>]
  /\ chLlmLog' = Append(chLlmLog,
                        enhancedPromptOf(chContext, chRequest.message[1]))
  /\ chPc' = "generate"
  /\ UNCHANGED <<chRequest, chSearchLog, chContext, chSources, chLlm,
                 chResponses>>
  /\ UNCHANGED <<ctVars, dcVars, fmVars, vsVars>>

\* lines 58-66: generateText resolves, the handler answers 200
LLMReturns ==
  /\ chPc = "generate"
  /\ \E text \in ModelTexts :
       /\ chLlm' = [kind |-> "ok", text |-> text]
       /\ chResponses' = Append(chResponses,
                                [status |-> 200,
                                 body |-> okBody(text, chSources)])
  /\ chPc' = "done"
  /\ UNCHANGED <<chRequest, chSearchLog, chSearch, chContext, chSources,
                 chLlmLog>>
  /\ UNCHANGED <<ctVars, dcVars, fmVars, vsVars>>

\* a failed generateText call answered with 200 and an empty text
LLMFails_EmptyAnswer ==
  /\ chPc = "generate"
  /\ chLlm' = [kind |-> "error", text |-> ""]
  /\ chResponses' = Append(chResponses,
                           [status |-> 200, body |-> okBody("", chSources)])
  /\ chPc' = "done"
  /\ UNCHANGED <<chRequest, chSearchLog, chSearch, chContext, chSources,
                 chLlmLog>>
  /\ UNCHANGED <<ctVars, dcVars, fmVars, vsVars>>

\* lines 58-73: generateText rejects, the outer catch answers 500
LLMFails ==
  /\ chPc = "generate"
  /\ chLlm' = [kind |-> "error", text |-> ""]
  /\ chResponses' = Append(chResponses,
                           ErrorResponse(500, "Failed to generate response"))
  /\ chPc' = "done"
  /\ UNCHANGED <<chRequest, chSearchLog, chSearch, chContext, chSources,
                 chLlmLog>>
  /\ UNCHANGED <<ctVars, dcVars, fmVars, vsVars>>

NextChat ==
  \/ ChatParseFails \/ ChatRejectMissing \/ ChatStartSearch
  \/ SearchReturns \/ SearchFails
  \/ LLMReturns \/ LLMFails

SpecChat == InitChat /\ [][NextChat]_vars

-----------------------------------------------------------------------------
(* Claims about chunkText, checked under SpecChunk *)

\* 0-based index of the first word of the k-th returned chunk (k = 1, 2, ...)
\* when each chunk starts chunkSize - overlap words after the one before
WindowStart(k) == (k - 1) * (ctSize - ctOverlap)

\* the words of the k-th returned chunk
ChunkWords(k) == Split(ctResult[k])

\* C6: for a text with more than chunkSize words and 0 <= overlap < chunkSize,
\* every returned chunk but the last has exactly chunkSize words, consecutive
\* chunks share exactly `overlap` words at their boundary, the last chunk ends
\* at the last word of the input and no chunk follows a chunk that already
\* reached the end; 'one two three four five' with chunkSize 3 and overlap 1
\* gives ['one two three', 'three four five'].
C6_WindowsOverlapAndEnd ==
  (ctPc = "returned" /\ Len(Split(ctText)) > ctSize
     /\ 0 <= ctOverlap /\ ctOverlap < ctSize) =>
    LET words == Split(ctText)
        n == Len(ctResult)
    IN  /\ n >= 1
        /\ \A k \in 1..n :
             ChunkWords(k) = SubSeq(words, WindowStart(k) + 1,
                                    WindowStart(k) + Len(ChunkWords(k)))
        /\ \A k \in 1..(n - 1) :
             /\ Len(ChunkWords(k)) = ctSize
             /\ WindowStart(k) + ctSize - WindowStart(k + 1) = ctOverlap
             /\ Len(ChunkWords(k + 1)) > ctOverlap
             /\ SubSeq(ChunkWords(k), ctSize - ctOverlap + 1, ctSize)
                  = SubSeq(ChunkWords(k + 1), 1, ctOverlap)
             /\ WindowStart(k) + ctSize < Len(words)
        /\ Len(ChunkWords(n)) \in 1..ctSize
        /\ WindowStart(n) + Len(ChunkWords(n)) = Len(words)
        /\ (ctText = ExampleText /\ ctSize = 3 /\ ctOverlap = 1) =>
             ctResult = << <<"a", " ", "b", " ", "c">>,
                           <<"c", " ", "d", " ", "e">> >>

\* C6 witness: a call that returned three or more overlapping windows, the
\* last one shorter than chunkSize
C6_Witness ==
  /\ ctPc = "returned" /\ Len(Split(ctText)) > ctSize
  /\ ctOverlap >= 1 /\ Len(ctResult) >= 3
  /\ Len(ChunkWords(Len(ctResult))) < ctSize

\* the state machine of the call and the function chunkText agree
ChunkTextAgrees ==
  ctPc = "returned" => ctResult = chunkText(ctText, ctSize, ctOverlap)

-----------------------------------------------------------------------------
(* Claims about createDocumentChunks, checked under SpecDoc *)

\* the content holds no header boundary behind its first character
SingleSection(content) == \A p \in 2..Len(content) : ~HeaderAt(content, p)

\* C7 as stated: a text of at most chunkSize words is chunked into exactly one
\* chunk, equal to the trimmed text.
C7_AsStated ==
  (dcPc # "call" /\ Len(Split(dcContent)) <= DocChunkSize) =>
    /\ Len(dcChunks) = 1
    /\ dcChunks[1].content = Trim(dcContent)

\* C7 amended: a text of at most chunkSize words that holds no header boundary
\* behind its start and is not blank is chunked into exactly one chunk, equal
\* to the trimmed text; a blank text (empty or whitespace only) gives no chunk.
C7_OneChunkForShortSection ==
  (dcPc # "call" /\ Len(Split(dcContent)) <= DocChunkSize
     /\ SingleSection(dcContent)) =>
    IF Trim(dcContent) = << >>
    THEN dcChunks = << >>
    ELSE /\ Len(dcChunks) = 1
         /\ dcChunks[1].content = Trim(dcContent)

\* C7 witness: a short single-section text with surrounding whitespace was
\* chunked into one chunk
C7_Witness ==
  /\ dcPc # "call" /\ Len(Split(dcContent)) <= DocChunkSize
  /\ SingleSection(dcContent)
  /\ Trim(dcContent) # << >> /\ Trim(dcContent) # dcContent
  /\ Len(dcChunks) = 1

\* C8: every chunk returned by createDocumentChunks carries totalChunks equal
\* to the length of the returned list and chunkIndex equal to its zero-based
\* position in it, also when empty windows were skipped; none keeps the
\* placeholder totalChunks = 0.
C8_IndexAndTotal ==
  dcPc # "call" =>
    \A k \in 1..Len(dcChunks) :
      /\ dcChunks[k].metadata.chunkIndex = k - 1
      /\ dcChunks[k].metadata.totalChunks = Len(dcChunks)
      /\ dcChunks[k].metadata.totalChunks # 0

\* some section of the content has a window that is skipped as empty
HasSkippedWindow(content) ==
  LET sections == splitSections(content)
  IN  \E s \in 1..Len(sections) :
        LET w == SectionChunks(sections[s])
        IN  Len(w) >= 2 /\ \E i \in 1..Len(w) : Trim(w[i]) = << >>

\* C8 witness: two or more chunks were returned for a content with a skipped
\* empty window
C8_Witness ==
  dcPc # "call" /\ Len(dcChunks) >= 2 /\ HasSkippedWindow(dcContent)

\* C9: chunking the same content under the same filename a second time gives
\* the same sequence of ids (whatever the title), and every id is the
\* filename, the ordinal of a section and the ordinal of a window of that
\* section, namely of the window the chunk holds, in increasing order.
C9_IdsDeterministic ==
  dcPc = "second" =>
    LET sections == splitSections(dcContent)
        Places == {sw \in (0..Len(sections)) \X (0..(MaxDocLen + 1)) :
                     /\ sw[1] < Len(sections)
                     /\ sw[2] < Len(SectionChunks(sections[sw[1] + 1]))}
        PlaceOf(c) == {sw \in Places :
                         /\ c.id = ChunkId(dcFilename, sw[1], sw[2])
                         /\ c.content
                              = SectionChunks(sections[sw[1] + 1])[sw[2] + 1]}
    IN  /\ Len(dcAgain) = Len(dcChunks)
        /\ \A k \in 1..Len(dcChunks) : dcAgain[k].id = dcChunks[k].id
        /\ \A k \in 1..Len(dcChunks) : PlaceOf(dcChunks[k]) # {}
        /\ \A k \in 1..(Len(dcChunks) - 1) :
             \E a \in PlaceOf(dcChunks[k]), b \in PlaceOf(dcChunks[k + 1]) :
               a[1] < b[1] \/ (a[1] = b[1] /\ a[2] < b[2])
        /\ \A j, k \in 1..Len(dcChunks) :
             j # k => dcChunks[j].id # dcChunks[k].id

\* C9 witness: the second call ran with another title on a content whose
\* chunks come from a later section and from a window after a skipped one
C9_Witness ==
  /\ dcPc = "second" /\ dcTitle2 # dcTitle /\ Len(dcChunks) >= 2
  /\ \E k \in 1..Len(dcChunks) :
       dcChunks[k].id # ChunkId(dcFilename, 0, k - 1)

-----------------------------------------------------------------------------
(* Claims about formatDocumentForRAG, checked under SpecFormat *)

\* the positions of str that hold the piece
Positions(str, piece) == {i \in 1..Len(str) : str[i] = piece}

\* the i-th smallest element of a set of numbers
Nth(S, i) == CHOOSE x \in S : Cardinality({y \in S : y < x}) = i - 1

\* C10: formatDocumentForRAG returns the empty string for an empty list; for
\* a non-empty list the output starts with the fixed preamble and holds, for
\* every result and in input order, a heading with its title, the section
\* sub-heading only when a section is present, its content verbatim and a
\* source marker with its filename.
C10_FormatterOutput ==
  fmPc = "returned" =>
    IF fmResults = << >>
    THEN fmOutput = << >>
    ELSE LET n == Len(fmResults)
             H == Positions(fmOutput, "## Document ")
         IN  /\ Len(fmOutput) >= 3
             /\ SubSeq(fmOutput, 1, 3)
                  = <<"Based on the following incident response documentation:",
                      "\n", "\n">>
             /\ Cardinality(H) = n
             /\ \A i \in 1..n :
                  LET from == Nth(H, i)
                      to == IF i < n THEN Nth(H, i + 1) - 1 ELSE Len(fmOutput)
                      part == SubSeq(fmOutput, from, to)
                      md == fmResults[i].metadata
                      hasSection == md.section # << >> /\ md.section[1] # ""
                      rest == SubSeq(part, IF hasSection THEN 9 ELSE 6, Len(part))
                  IN  /\ SubSeq(part, 1, 5)
                           = <<"## Document ", Digits[i + 1], ": ", md.title, "\n">>
                      /\ IF hasSection
                         THEN SubSeq(part, 6, 8) = <<"### ", md.section[1], "\n">>
                         ELSE Positions(part, "### ") = {}
                      /\ rest = <<md.content, "\n", "\n",
                                  "*Source: ", md.filename, "*", "\n", "\n">>

\* C10 witness: two results were formatted, the first without a section and
\* the second with one
C10_Witness ==
  /\ fmPc = "returned" /\ Len(fmResults) = 2
  /\ fmResults[1].metadata.section = << >>
  /\ fmResults[2].metadata.section = <<"Steps">>
  /\ fmResults[1].metadata.title # fmResults[2].metadata.title

-----------------------------------------------------------------------------
(* Claims about POST /api/chat, checked under SpecChat *)

\* the store's match has a score at or above the threshold
RawSurvives(match) ==
  match.score # << >> /\ match.score[1] >= SIMILARITY_THRESHOLD

\* the citation a surviving match is shown with
CitationOf(match) ==
  [filename |-> match.metadata.filename,
   title |-> match.metadata.title,
   section |-> IF match.metadata.section # << >>
                  /\ match.metadata.section[1] # ""
               THEN match.metadata.section ELSE << >>]

\* the citations of the surviving matches, in search order
SurvivorCitations ==
  LET kept == SelectSeq(chSearch.matches, RawSurvives)
  IN  [k \in 1..Len(kept) |-> CitationOf(kept[k])]

Generic500 == [status |-> 500, body |-> [error |-> "Failed to generate response"]]

\* the prompt without context for the request's message
PlainPrompt ==
  <<"SYSTEM_PROMPT", "\n", "\n",
    "User Question:", " ", chRequest.message[1], "\n", "\n",
    "Note: No relevant incident response procedures were found in the knowledge base. Please provide general assistance.">>

\* the prompt with the formatted context for the request's message
ContextPrompt ==
  <<"SYSTEM_PROMPT", "\n", "\n">> \o chContext
    \o <<"\n", "\n", "User Question:", " ", chRequest.message[1], "\n", "\n",
         "RAG_INSTRUCTIONS">>

\* the prompt holds formatted context
HasContext(prompt) ==
  Positions(prompt, "Based on the following incident response documentation:") # {}

\* C1: for a request with a non-empty message whose search succeeds, the
\* sources of the 200 response are exactly the search results with a score of
\* at least 0.5, one citation each and in search order; if no result reaches
\* 0.5 the response has no sources field.
C1_SourcesAreSurvivors ==
  (chPc = "done" /\ chSearch.kind = "ok" /\ chResponses[1].status = 200) =>
    LET body == chResponses[1].body
    IN  IF SurvivorCitations = << >>
        THEN "sources" \notin DOMAIN body
        ELSE "sources" \in DOMAIN body /\ body.sources = SurvivorCitations

\* C1 witness: a 200 response to a search of two matches of which only the
\* second survives, with a score of exactly 0.5
C1_Witness ==
  /\ chPc = "done" /\ chSearch.kind = "ok" /\ chResponses[1].status = 200
  /\ Len(chSearch.matches) = 2
  /\ ~RawSurvives(chSearch.matches[1])
  /\ chSearch.matches[2].score = <<SIMILARITY_THRESHOLD>>
  /\ "sources" \in DOMAIN chResponses[1].body

\* the request's body parsed and its message is absent or the empty string
NoMessage ==
  chRequest.json /\ (chRequest.message = << >> \/ chRequest.message = <<"">>)

\* C2: a request whose message is absent or the empty string is answered with
\* status 400, and neither the search nor the language-model call is issued.
C2_MissingMessageIs400 ==
  (chPc # "off" /\ NoMessage) =>
    /\ chSearchLog = << >> /\ chLlmLog = << >>
    /\ chPc \in {"idle", "done"}
    /\ chPc = "idle" => ENABLED ChatRejectMissing
    /\ chPc = "done" =>
         /\ Len(chResponses) = 1
         /\ chResponses[1].status = 400

\* C2 witness: a request with the empty string as message was answered
C2_Witness ==
  chPc = "done" /\ chRequest.json /\ chRequest.message = <<"">>

\* C3 as stated: if the search raises an error, the handler calls the language
\* model with the no-context prompt and answers 200 with the model text and
\* no sources field.
C3_AsStated ==
  (chPc = "done" /\ chSearch.kind = "error") =>
    /\ chLlmLog = <<PlainPrompt>>
    /\ chResponses = << [status |-> 200, body |-> [response |-> chLlm.text]] >>

\* C3 amended: if the search raises an error, the error is not surfaced: the
\* handler still calls the language model, once and with the no-context
\* prompt, and answers 200 with the model text and no sources field when that
\* call succeeds; when that call fails too, it answers 500.
C3_SearchErrorSwallowed ==
  chSearch.kind = "error" =>
    /\ chLlmLog = <<PlainPrompt>>
    /\ chPc \in {"generate", "done"}
    /\ chPc = "generate" => chResponses = << >>
    /\ chPc = "done" =>
         IF chLlm.kind = "ok"
         THEN chResponses
                = << [status |-> 200, body |-> [response |-> chLlm.text]] >>
         ELSE chResponses = <<Generic500>>

\* C3 witness: a request whose search failed was answered 200
C3_Witness ==
  /\ chPc = "done" /\ chSearch.kind = "error"
  /\ chResponses[1].status = 200

\* C4: every request ends with exactly one response, of status 200, 400 or
\* 500; the language-model call is issued at most once, its failure always
\* gives 500 with the generic error body, and a 200 response carries the
\* model's text verbatim.
C4_OneResponse ==
  chPc # "off" =>
    /\ Len(chResponses) <= 1
    /\ (chPc = "done") <=> (Len(chResponses) = 1)
    /\ (chPc # "done") <=> ENABLED NextChat
    /\ \A k \in 1..Len(chResponses) : chResponses[k].status \in {200, 400, 500}
    /\ Len(chLlmLog) <= 1
    /\ chLlm.kind = "error" => chPc = "done" /\ chResponses = <<Generic500>>
    /\ \A k \in 1..Len(chResponses) :
         chResponses[k].status = 200 =>
           /\ chLlm.kind = "ok"
           /\ chResponses[k].body.response = chLlm.text

\* C4 witness: a request whose language-model call failed was answered 500
C4_Witness ==
  chPc = "done" /\ chLlm.kind = "error" /\ chResponses[1].status = 500

\* the prompt handed to the model is the with-context prompt exactly when a
\* search result survived the filter, the no-context prompt otherwise
PromptFollowsSurvivors ==
  Len(chLlmLog) = 1
  /\ IF chSearch.kind = "ok" /\ SurvivorCitations # << >>
     THEN /\ chLlmLog[1] = ContextPrompt
          /\ HasContext(chLlmLog[1])
          /\ chContext # << >>
     ELSE /\ chLlmLog[1] = PlainPrompt
          /\ ~HasContext(chLlmLog[1])

\* C5 as stated: the with-context prompt is built exactly when a result
\* survives the filter, the no-context prompt otherwise; the prompt sent to
\* the model holds context if and only if the response carries sources.
C5_AsStated ==
  (chPc = "done" /\ chLlmLog # << >>) =>
    /\ PromptFollowsSurvivors
    /\ HasContext(chLlmLog[1]) <=> ("sources" \in DOMAIN chResponses[1].body)

\* C5 amended: the with-context prompt is built exactly when a result survives
\* the filter, the no-context prompt otherwise; the prompt sent to the model
\* holds context if and only if the 200 response carries sources (the 500
\* response to a failed model call carries none, whatever the prompt).
C5_PromptMatchesSurvivors ==
  /\ chLlmLog # << >> => PromptFollowsSurvivors
  /\ chPc = "generate" => chLlmLog # << >>
  /\ chPc \in {"idle", "search"} => chLlmLog = << >>
  /\ (chPc = "done" /\ chLlmLog # << >>) =>
       IF chResponses[1].status = 200
       THEN HasContext(chLlmLog[1])
              <=> ("sources" \in DOMAIN chResponses[1].body)
       ELSE "sources" \notin DOMAIN chResponses[1].body

\* C5 witness: a 200 response with sources to a prompt with context, built
\* for a search of which one result was dropped
C5_Witness ==
  /\ chPc = "done" /\ chResponses[1].status = 200
  /\ "sources" \in DOMAIN chResponses[1].body
  /\ HasContext(chLlmLog[1])
  /\ Len(chResponses[1].body.sources) < Len(chSearch.matches)


-----------------------------------------------------------------------------
(* The vector store (lib/vector-store, printed behind document-processor.ts) *)

\* INDEX_NAME = 'kma-documents'
INDEX_NAME == "kma-documents"
\* dimension: 1536 in the createIndex call of initializeIndex
IndexDimension == 1536
\* the loop bound of the hash-based generateEmbedding (lib/embeddings.ts)
HashEmbeddingDim == 384
\* the length of a text-embedding-3-small vector (the OpenAI generateEmbedding)
OpenAIEmbeddingDim == 1536
\* const batchSize = 100 in upsertDocuments
batchSize == 100

\* most describeIndex calls of one readiness poll
MaxPolls == 3
\* most vector-store operations one caller issues in a row
MaxOps == 3
\* most records handed to upsertDocuments directly
MaxRecords == 201

otherVars == <<ctVars, dcVars, fmVars, chVars>>
handleVars == <<vsPinecone, vsConstructed, vsIndex, vsHandles>>
envVars == <<envApiKey, envEmbedding, fsFiles>>
storeVars == <<stIndex, stDim, stRecords>>

\* getPinecone(): whether it returns (it throws without an API key while no
\* client is cached), and the module state it leaves behind
getPinecone ==
  IF vsPinecone # None
  THEN [ok |-> TRUE, pinecone |-> vsPinecone, constructed |-> vsConstructed]
  ELSE IF ~envApiKey
  THEN [ok |-> FALSE, pinecone |-> vsPinecone, constructed |-> vsConstructed]
  ELSE [ok |-> TRUE, pinecone |-> Some(vsConstructed + 1),
        constructed |-> vsConstructed + 1]

\* getIndex() creating a handle on every call
getIndex_AlwaysNew ==
  [ok |-> getPinecone.ok,
   pinecone |-> getPinecone.pinecone,
   constructed |-> getPinecone.constructed,
   index |-> IF getPinecone.ok THEN Some(vsHandles + 1) ELSE vsIndex,
   handles |-> IF getPinecone.ok THEN vsHandles + 1 ELSE vsHandles]

\* getIndex(): the cached handle, or a new one from the (cached) client
getIndex ==
  IF vsIndex # None
  THEN [ok |-> TRUE, pinecone |-> vsPinecone, constructed |-> vsConstructed,
        index |-> vsIndex, handles |-> vsHandles]
  ELSE [ok |-> getPinecone.ok,
        pinecone |-> getPinecone.pinecone,
        constructed |-> getPinecone.constructed,
        index |-> IF getPinecone.ok THEN Some(vsHandles + 1) ELSE vsIndex,
        handles |-> IF getPinecone.ok THEN vsHandles + 1 ELSE vsHandles]

\* the module state after a getPinecone() call
DoGetPinecone ==
  /\ vsPinecone' = getPinecone.pinecone
  /\ vsConstructed' = getPinecone.constructed
  /\ UNCHANGED <<vsIndex, vsHandles>>

\* the module state after a getIndex() call
DoGetIndex ==
  /\ vsPinecone' = getIndex.pinecone
  /\ vsConstructed' = getIndex.constructed
  /\ vsIndex' = getIndex.index
  /\ vsHandles' = getIndex.handles

\* the message of the error thrown by getPinecone
NoApiKey == "PINECONE_API_KEY environment variable is not set"

\* error.message.includes('404') on the errors of the model: the store's
\* not-found answer is the one message that holds '404'
Includes404(error) == error = "404"

\* the errors a data call (upsert, query, stats, delete) may be answered with:
\* a failure at any time, not-found only while the index holds no record
DataErrors == {"store failure"} \cup (IF stRecords = {} THEN {"404"} ELSE {})

\* a data call can be served only by a ready index
DataReady == stIndex = "ready"

\* the running call of process p, and tests on it
Top(p) == ix[p][Len(ix[p])]
Running(p, fn, pc) == ix[p] # << >> /\ Top(p).fn = fn /\ Top(p).pc = pc

\* the running call of p moves on to frame
Goto(p, frame) == ix' = [ix EXCEPT ![p] = [@ EXCEPT ![Len(@)] = frame]]

\* the running call of p, left as caller, awaits the new call callee
CallFrom(p, caller, callee) ==
  ix' = [ix EXCEPT ![p] = SubSeq(@, 1, Len(@) - 1) \o <<caller, callee>>]

\* the running call of p settles its promise: its caller finds result in ret
ReturnTo(p, result) ==
  ix' = [ix EXCEPT ![p] =
           SubSeq(@, 1, Len(@) - 2)
             \o << [@[Len(@) - 1] EXCEPT !.ret = Some(result)] >>]

Ok(value) == [ok |-> TRUE, value |-> value]
Err(error) == [ok |-> FALSE, error |-> error]

\* one call issued by process p, as the log keeps it
Issued(p, call, arg) == [call |-> call, by |-> p, arg |-> arg]
Log(p, call, arg) == stLog' = Append(stLog, Issued(p, call, arg))

\* the frames of new calls
InitializeIndexFrame == [fn |-> "initializeIndex", pc |-> "start", ret |-> None, polls |-> 0]
DeleteIndexFrame == [fn |-> "deleteIndex", pc |-> "start", ret |-> None]
DeleteAllFrame == [fn |-> "deleteAllDocuments", pc |-> "start", ret |-> None]
UpsertFrame(documents) == [fn |-> "upsertDocuments", pc |-> "start", ret |-> None, documents |-> documents, vectors |-> << >>, i |-> 0]
SearchFrame(query, topK) == [fn |-> "searchSimilar", pc |-> "start", ret |-> None, query |-> query, topK |-> topK]

-----------------------------------------------------------------------------
(* initializeIndex, one action per await *)

\* lines 285-288: getPinecone(), then listIndexes is awaited
InitializeIndexStart(p) ==
  /\ Running(p, "initializeIndex", "start")
  /\ IF getPinecone.ok
     THEN /\ DoGetPinecone
          /\ Log(p, "listIndexes", getPinecone.pinecone)
          /\ Goto(p, [Top(p) EXCEPT !.pc = "listIndexes"])
     ELSE /\ ReturnTo(p, Err(NoApiKey))
          /\ UNCHANGED <<handleVars, stLog>>
  /\ UNCHANGED <<envVars, storeVars, stSteady, otherVars>>

\* line 288 rejects: the catch of lines 325-328 rethrows
InitializeIndexListFails(p) ==
  /\ Running(p, "initializeIndex", "listIndexes")
  /\ ReturnTo(p, Err("store failure"))
  /\ UNCHANGED <<handleVars, envVars, storeVars, stSteady, stLog, otherVars>>

\* lines 288-303 and 322-324: the list arrives; createIndex is awaited only
\* when the list lacks INDEX_NAME, else getIndex() and return
InitializeIndexListed(p) ==
  /\ Running(p, "initializeIndex", "listIndexes")
  /\ LET indexExists == stIndex # "absent"
     IN  IF ~indexExists
         THEN /\ Log(p, "createIndex", IndexDimension)
              /\ Goto(p, [Top(p) EXCEPT !.pc = "createIndex"])
              /\ UNCHANGED handleVars
         ELSE /\ DoGetIndex
              /\ ReturnTo(p, Ok("initialized"))
              /\ UNCHANGED stLog
  /\ UNCHANGED <<envVars, storeVars, stSteady, otherVars>>

\* line 293 rejects (a store failure, or the name is taken by now)
InitializeIndexCreateFails(p) ==
  /\ Running(p, "initializeIndex", "createIndex")
  /\ ReturnTo(p, Err(IF stIndex = "absent" THEN "store failure"
                     ELSE "409 index exists"))
  /\ UNCHANGED <<handleVars, envVars, storeVars, stSteady, stLog, otherVars>>

\* lines 293-310: the store has created the index, empty and not ready yet;
\* the first describeIndex is awaited
InitializeIndexCreated(p) ==
  /\ Running(p, "initializeIndex", "createIndex")
  /\ stIndex = "absent"
  /\ stIndex' = "creating" /\ stDim' = IndexDimension /\ stRecords' = {}
  /\ Log(p, "describeIndex", 1)
  /\ Goto(p, [Top(p) EXCEPT !.pc = "describeIndex", !.polls = 1])
  /\ UNCHANGED <<handleVars, envVars, stSteady, otherVars>>

\* lines 310-311 and 322-324: status.ready is true; the loop ends, getIndex()
InitializeIndexPollReady(p) ==
  /\ Running(p, "initializeIndex", "describeIndex")
  /\ stIndex = "ready"
  /\ DoGetIndex
  /\ ReturnTo(p, Ok("initialized"))
  /\ UNCHANGED <<envVars, storeVars, stSteady, stLog, otherVars>>

\* a describeIndex error ending the wait: the error is raised
InitializeIndexPollError_Raises(p) ==
  /\ Running(p, "initializeIndex", "describeIndex")
  /\ ~stSteady
  /\ ReturnTo(p, Err("store failure"))
  /\ UNCHANGED <<handleVars, envVars, storeVars, stSteady, stLog, otherVars>>

\* lines 310-313: status.ready is not true; after 1000 ms the next
\* describeIndex is awaited
InitializeIndexPollNotReady(p) ==
  /\ Running(p, "initializeIndex", "describeIndex")
  /\ stIndex # "ready"
  /\ Top(p).polls < MaxPolls
  /\ Log(p, "describeIndex", Top(p).polls + 1)
  /\ Goto(p, [Top(p) EXCEPT !.polls = @ + 1])
  /\ UNCHANGED <<handleVars, envVars, storeVars, stSteady, otherVars>>

\* lines 315-318: describeIndex rejects; after 2000 ms the next one is awaited
InitializeIndexPollError(p) ==
  /\ Running(p, "initializeIndex", "describeIndex")
  /\ ~stSteady
  /\ Top(p).polls < MaxPolls
  /\ Log(p, "describeIndex", Top(p).polls + 1)
  /\ Goto(p, [Top(p) EXCEPT !.polls = @ + 1])
  /\ UNCHANGED <<handleVars, envVars, storeVars, stSteady, otherVars>>

\* the store finishes the creation of the index
StoreBecomesReady ==
  /\ stIndex = "creating"
  /\ stIndex' = "ready"
  /\ UNCHANGED <<handleVars, envVars, stDim, stRecords, stSteady, stLog, ix,
                 otherVars>>

\* from now on the store answers every describeIndex with ready
StoreSettles ==
  /\ stIndex = "ready" /\ ~stSteady
  /\ stSteady' = TRUE
  /\ UNCHANGED <<handleVars, envVars, storeVars, stLog, ix, otherVars>>

-----------------------------------------------------------------------------
(* deleteIndex *)

\* lines 467-470: getPinecone(), then listIndexes is awaited
DeleteIndexStart(p) ==
  /\ Running(p, "deleteIndex", "start")
  /\ IF getPinecone.ok
     THEN /\ DoGetPinecone
          /\ Log(p, "listIndexes", getPinecone.pinecone)
          /\ Goto(p, [Top(p) EXCEPT !.pc = "listIndexes"])
     ELSE /\ ReturnTo(p, Err(NoApiKey))
          /\ UNCHANGED <<handleVars, stLog>>
  /\ UNCHANGED <<envVars, storeVars, stSteady, otherVars>>

\* line 470 rejects: the catch of lines 483-486 rethrows
DeleteIndexListFails(p) ==
  /\ Running(p, "deleteIndex", "listIndexes")
  /\ ReturnTo(p, Err("store failure"))
  /\ UNCHANGED <<handleVars, envVars, storeVars, stSteady, stLog, otherVars>>

\* lines 470-482: the list arrives; pc.deleteIndex is awaited only when the
\* list holds INDEX_NAME
DeleteIndexListed(p) ==
  /\ Running(p, "deleteIndex", "listIndexes")
  /\ LET indexExists == stIndex # "absent"
     IN  IF indexExists
         THEN /\ Log(p, "deleteIndex", INDEX_NAME)
              /\ Goto(p, [Top(p) EXCEPT !.pc = "deleteIndex"])
         ELSE /\ ReturnTo(p, Ok("nothing to delete"))
              /\ UNCHANGED stLog
  /\ UNCHANGED <<handleVars, envVars, storeVars, stSteady, otherVars>>

\* line 475 rejects (a store failure, or the index is gone by now)
DeleteIndexDeleteFails(p) ==
  /\ Running(p, "deleteIndex", "deleteIndex")
  /\ ReturnTo(p, Err(IF stIndex = "absent" THEN "404" ELSE "store failure"))
  /\ UNCHANGED <<handleVars, envVars, storeVars, stSteady, stLog, otherVars>>

\* lines 475-479: the store has deleted the index with its records; the
\* cached handle is reset
DeleteIndexDeleted(p) ==
  /\ Running(p, "deleteIndex", "deleteIndex")
  /\ stIndex # "absent"
  /\ stIndex' = "absent" /\ stDim' = 0 /\ stRecords' = {} /\ stSteady' = FALSE
  /\ vsIndex' = None
  /\ ReturnTo(p, Ok("deleted"))
  /\ UNCHANGED <<vsPinecone, vsConstructed, vsHandles, envVars, stLog,
                 otherVars>>

-----------------------------------------------------------------------------
(* deleteAllDocuments *)

\* a catch that takes every error for an empty index
DeleteAllCatch_SwallowsAll(p, error) ==
  ReturnTo(p, Ok("Index is empty, no documents to delete"))

\* the catch of lines 435-444: a message holding '404' is success (the
\* returned values of deleteAllDocuments are the lines it logs)
DeleteAllCatch(p, error) ==
  IF Includes404(error)
  THEN ReturnTo(p, Ok("Index is empty, no documents to delete"))
  ELSE ReturnTo(p, Err(error))

\* lines 422-425: getIndex(), then describeIndexStats is awaited
DeleteAllStart(p) ==
  /\ Running(p, "deleteAllDocuments", "start")
  /\ IF getIndex.ok
     THEN /\ DoGetIndex
          /\ Log(p, "describeIndexStats", getIndex.index)
          /\ Goto(p, [Top(p) EXCEPT !.pc = "describeIndexStats"])
     ELSE /\ DeleteAllCatch(p, NoApiKey)
          /\ UNCHANGED <<handleVars, stLog>>
  /\ UNCHANGED <<envVars, storeVars, stSteady, otherVars>>

\* line 425 rejects
DeleteAllStatsFails(p) ==
  /\ Running(p, "deleteAllDocuments", "describeIndexStats")
  /\ \E error \in DataErrors : DeleteAllCatch(p, error)
  /\ UNCHANGED <<handleVars, envVars, storeVars, stSteady, stLog, otherVars>>

\* lines 425-434: the statistics arrive; deleteAll is awaited only when
\* totalVectorCount (or 0) is positive
DeleteAllStats(p) ==
  /\ Running(p, "deleteAllDocuments", "describeIndexStats")
  /\ DataReady
  /\ LET totalVectorCount == Cardinality(stRecords)
     IN  IF totalVectorCount > 0
         THEN /\ Log(p, "deleteAll", Top(p).fn)
              /\ Goto(p, [Top(p) EXCEPT !.pc = "deleteAll"])
         ELSE /\ ReturnTo(p, Ok("No documents to delete from Pinecone"))
              /\ UNCHANGED stLog
  /\ UNCHANGED <<handleVars, envVars, storeVars, stSteady, otherVars>>

\* line 430 rejects
DeleteAllDeleteFails(p) ==
  /\ Running(p, "deleteAllDocuments", "deleteAll")
  /\ \E error \in DataErrors : DeleteAllCatch(p, error)
  /\ UNCHANGED <<handleVars, envVars, storeVars, stSteady, stLog, otherVars>>

\* lines 430-431: the store has removed every record
DeleteAllDeleted(p) ==
  /\ Running(p, "deleteAllDocuments", "deleteAll")
  /\ DataReady
  /\ stRecords' = {}
  /\ ReturnTo(p, Ok("All documents deleted from Pinecone"))
  /\ UNCHANGED <<handleVars, envVars, stIndex, stDim, stSteady, stLog,
                 otherVars>>

-----------------------------------------------------------------------------
(* upsertDocuments *)

\* doc.metadata.section || '' on an optional character string
SectionOrEmpty(opt) == IF opt # None /\ opt[1] # << >> THEN opt[1] ELSE << >>

\* lines 342-353: one document converted to the store's format
toPineconeVector(doc) ==
  [id |-> doc.id,
   values |-> doc.values,
   metadata |-> [filename |-> doc.metadata.filename,
                 title |-> doc.metadata.title,
                 content |-> doc.metadata.content,
                 section |-> SectionOrEmpty(doc.metadata.section),
                 chunkIndex |-> doc.metadata.chunkIndex,
                 totalChunks |-> doc.metadata.totalChunks]]

\* documents.map(doc => ...)
toPineconeVectors(documents) ==
  [k \in 1..Len(documents) |-> toPineconeVector(documents[k])]

\* the batch of an iteration that slices to the end of the array
BatchAt_ToEnd(vectors, i) == Slice(vectors, i, Len(vectors))

\* vectors.slice(i, i + batchSize)
BatchAt(vectors, i) == Slice(vectors, i, i + batchSize)

\* the store accepts a vector only of the dimension of its index
DimsMatch(batch) == \A k \in 1..Len(batch) : batch[k].values.length = stDim

\* the records of the index after an upsert: a record replaces the one of
\* its id
StoreUpsert(records, batch) ==
  {r \in records : \A k \in 1..Len(batch) : batch[k].id # r.id}
    \cup {batch[k] : k \in 1..Len(batch)}

\* lines 339-359: getIndex(), the conversion, and the first upsert awaited
\* if there is a vector at all
UpsertStart(p) ==
  /\ Running(p, "upsertDocuments", "start")
  /\ IF getIndex.ok
     THEN /\ DoGetIndex
          /\ LET vectors == toPineconeVectors(Top(p).documents)
             IN  IF 0 < Len(vectors)
                 THEN /\ Log(p, "upsert", BatchAt(vectors, 0))
                      /\ Goto(p, [Top(p) EXCEPT !.pc = "upsert",
                                                !.vectors = vectors,
                                                !.i = 0])
                 ELSE /\ ReturnTo(p, Ok("upserted"))
                      /\ UNCHANGED stLog
     ELSE /\ ReturnTo(p, Err(NoApiKey))
          /\ UNCHANGED <<handleVars, stLog>>
  /\ UNCHANGED <<envVars, storeVars, stSteady, otherVars>>

\* line 359 rejects: the catch of lines 364-367 rethrows and the loop is left
UpsertBatchFails(p) ==
  /\ Running(p, "upsertDocuments", "upsert")
  /\ ReturnTo(p, Err(IF DimsMatch(BatchAt(Top(p).vectors, Top(p).i))
                     THEN "store failure" ELSE "dimension mismatch"))
  /\ UNCHANGED <<handleVars, envVars, storeVars, stSteady, stLog, otherVars>>

\* lines 357-363: the store has written the batch; the next batch is awaited
\* if the array holds more, else the call returns
UpsertBatchDone(p) ==
  /\ Running(p, "upsertDocuments", "upsert")
  /\ DataReady
  /\ DimsMatch(BatchAt(Top(p).vectors, Top(p).i))
  /\ stRecords' = StoreUpsert(stRecords, BatchAt(Top(p).vectors, Top(p).i))
  /\ LET i == Top(p).i + batchSize
     IN  IF i < Len(Top(p).vectors)
         THEN /\ Log(p, "upsert", BatchAt(Top(p).vectors, i))
              /\ Goto(p, [Top(p) EXCEPT !.i = i])
         ELSE /\ ReturnTo(p, Ok("upserted"))
              /\ UNCHANGED stLog
  /\ UNCHANGED <<handleVars, envVars, stIndex, stDim, stSteady, otherVars>>

-----------------------------------------------------------------------------
(* generateEmbedding and searchSimilar *)

\* generateEmbedding(text): the vector is kept as its length and the text it
\* was computed from (the hash variant pushes 384 values, the OpenAI variant
\* returns the provider's vector)
generateEmbedding(text) ==
  [length |-> IF envEmbedding = "hash" THEN HashEmbeddingDim
              ELSE OpenAIEmbeddingDim,
   text |-> text]

\* the message thrown by the catch of the OpenAI generateEmbedding
EmbeddingFailed == "Failed to generate OpenAI embedding"

\* line 386: generateEmbedding(query) is awaited
SearchStart(p) ==
  /\ Running(p, "searchSimilar", "start")
  /\ Log(p, "embed", Top(p).query)
  /\ Goto(p, [Top(p) EXCEPT !.pc = "embed"])
  /\ UNCHANGED <<handleVars, envVars, storeVars, stSteady, otherVars>>

\* line 386 rejects (the embedding request of the OpenAI variant failed)
SearchEmbedFails(p) ==
  /\ Running(p, "searchSimilar", "embed")
  /\ envEmbedding = "openai"
  /\ ReturnTo(p, Err(EmbeddingFailed))
  /\ UNCHANGED <<handleVars, envVars, storeVars, stSteady, stLog, otherVars>>

\* lines 386-396: the embedding arrives; getIndex(), then the query is awaited
SearchEmbedded(p) ==
  /\ Running(p, "searchSimilar", "embed")
  /\ IF getIndex.ok
     THEN /\ DoGetIndex
          /\ Log(p, "query", [vector |-> generateEmbedding(Top(p).query),
                              topK |-> Top(p).topK])
          /\ Goto(p, [Top(p) EXCEPT !.pc = "query"])
     ELSE /\ ReturnTo(p, Err(NoApiKey))
          /\ UNCHANGED <<handleVars, stLog>>
  /\ UNCHANGED <<envVars, storeVars, stSteady, otherVars>>

\* line 391 rejects
SearchQueryFails(p) ==
  /\ Running(p, "searchSimilar", "query")
  /\ ReturnTo(p, Err(IF generateEmbedding(Top(p).query).length = stDim
                     THEN "store failure" ELSE "dimension mismatch"))
  /\ UNCHANGED <<handleVars, envVars, storeVars, stSteady, stLog, otherVars>>

\* lines 391-413: the store answers with at most topK of its records (their
\* conversion to SearchResult is toSearchResults)
SearchQueryReturns(p) ==
  /\ Running(p, "searchSimilar", "query")
  /\ DataReady
  /\ generateEmbedding(Top(p).query).length = stDim
  /\ \E matches \in SUBSET stRecords :
       /\ Cardinality(matches) = Min(Top(p).topK, Cardinality(stRecords))
       /\ ReturnTo(p, Ok(matches))
  /\ UNCHANGED <<handleVars, envVars, storeVars, stSteady, stLog, otherVars>>

-----------------------------------------------------------------------------
(* Loading documents (lib/document-processor.ts); file names and contents   *)
(* are character strings                                                    *)

LowerCase == <<"a", "b", "c", "d", "e", "f", "g", "h", "i", "j", "k", "l", "m",
               "n", "o", "p", "q", "r", "s", "t", "u", "v", "w", "x", "y", "z">>
UpperCase == <<"A", "B", "C", "D", "E", "F", "G", "H", "I", "J", "K", "L", "M",
               "N", "O", "P", "Q", "R", "S", "T", "U", "V", "W", "X", "Y", "Z">>

\* l.toUpperCase() of one character
ToUpperCase(c) ==
  IF \E k \in 1..26 : LowerCase[k] = c
  THEN UpperCase[CHOOSE k \in 1..26 : LowerCase[k] = c]
  ELSE c

\* the characters matched by \w
IsWordChar(c) ==
  \/ \E k \in 1..26 : LowerCase[k] = c \/ UpperCase[k] = c
  \/ \E k \in 1..10 : Digits[k] = c
  \/ c = "_"

\* s.replace(/\b\w/g, l => l.toUpperCase()): the first character of every
\* run of word characters in upper case
Capitalize(s) ==
  [j \in 1..Len(s) |->
     IF IsWordChar(s[j]) /\ (j = 1 \/ ~IsWordChar(s[j - 1]))
     THEN ToUpperCase(s[j]) ELSE s[j]]

\* s.endsWith(suffix)
EndsWith(s, suffix) ==
  /\ Len(s) >= Len(suffix)
  /\ SubSeq(s, Len(s) - Len(suffix) + 1, Len(s)) = suffix

MdSuffix == <<".", "m", "d">>

\* s.replace(/\.md$/, '')
StripMd(s) ==
  IF EndsWith(s, MdSuffix) THEN SubSeq(s, 1, Len(s) - Len(MdSuffix)) ELSE s

\* s.replace(/_/g, ' ')
UnderscoresToSpaces(s) == [j \in 1..Len(s) |-> IF s[j] = "_" THEN " " ELSE s[j]]

RECURSIVE SplitOn(_, _)
\* s.split(sep) for a separator of one character
SplitOn(s, sep) ==
  IF s = << >> THEN << << >> >>
  ELSE LET r == SplitOn(Tail(s), sep)
       IN  IF Head(s) = sep
           THEN << << >> >> \o r
           ELSE << <<Head(s)>> \o Head(r) >> \o Tail(r)

\* where group 1 of /^#\s+(.+)/m starts for a match at p, 0 without a match
\* at p (as TitleStart, for exactly one '#')
H1Start(s, p) ==
  LET w == p + 1
      e == SkipSpace(s, w)
      back == {j \in (w + 1)..Len(s) : s[j] # "\n"}
  IN  IF ~(p <= Len(s) /\ IsLineStart(s, p) /\ s[p] = "#" /\ w <= Len(s)
             /\ s[w] \in Whitespace)
      THEN 0
      ELSE IF e <= Len(s) THEN e
      ELSE IF back = {} THEN 0
      ELSE CHOOSE j \in back : \A i \in back : i <= j

\* content.match(/^#\s+(.+)/m): group 1 trimmed, undefined without a match
h1Match(content) ==
  LET P == {p \in 1..Len(content) : H1Start(content, p) > 0}
  IN  IF P = {} THEN None
      ELSE LET p == CHOOSE x \in P : \A y \in P : x <= y
               g == H1Start(content, p)
           IN  Some(Trim(SubSeq(content, g, LineEnd(content, g) - 1)))

\* extractTitleFromContent(content, filename)
extractTitleFromContent(content, filename) ==
  IF h1Match(content) # None THEN h1Match(content)[1]
  ELSE Capitalize(UnderscoresToSpaces(StripMd(filename)))

\* 'Unknown Alert Type'
UnknownAlertType ==
  <<"U", "n", "k", "n", "o", "w", "n", " ", "A", "l", "e", "r", "t", " ",
    "T", "y", "p", "e">>

RECURSIVE JoinWith(_, _)
\* parts.join(sep)
JoinWith(parts, sep) ==
  IF parts = << >> THEN << >>
  ELSE IF Len(parts) = 1 THEN parts[1]
  ELSE parts[1] \o <<sep>> \o JoinWith(Tail(parts), sep)

\* extractAlertType(filename, content)
extractAlertType(filename, content) ==
  LET filenameParts == SplitOn(StripMd(filename), "_")
  IN  IF Len(filenameParts) > 2
      THEN Capitalize(JoinWith(Tail(filenameParts), " "))
      ELSE IF h1Match(content) # None THEN h1Match(content)[1]
      ELSE UnknownAlertType

\* loadKMADocument for a file of the given name and content (the contents of
\* the model hold no '**System**:' line or the like, so that metadata holds
\* the alert type alone)
loadKMADocument(filename, content) ==
  [filename |-> filename,
   title |-> extractTitleFromContent(content, filename),
   content |-> content,
   metadata |-> [alertType |-> extractAlertType(filename, content)]]

\* lines 123-134: the vector document of a chunk and its embedding
toVectorDocument(chunk, embedding) ==
  [id |-> chunk.id,
   values |-> embedding,
   metadata |-> [filename |-> chunk.metadata.filename,
                 title |-> chunk.metadata.title,
                 content |-> chunk.content,
                 section |-> chunk.metadata.section,
                 chunkIndex |-> chunk.metadata.chunkIndex,
                 totalChunks |-> chunk.metadata.totalChunks]]

\* the frames of new calls
ProcessFrame(document) == [fn |-> "processKMADocument", pc |-> "start", ret |-> None, document |-> document, documentChunks |-> << >>, k |-> 0, vectorDocuments |-> << >>]
LoadAllFrame == [fn |-> "loadAllKMADocuments", pc |-> "start", ret |-> None, files |-> << >>, f |-> 0, documents |-> << >>]
ProcessAllFrame == [fn |-> "processAllKMADocuments", pc |-> "start", ret |-> None, documents |-> << >>, d |-> 0, processedDocuments |-> << >>]

-----------------------------------------------------------------------------
(* processKMADocument *)

\* the result of processKMADocument
Processed(document, chunks) == [document |-> document, chunks |-> chunks]

\* lines 111-121: the chunks are created; the embedding of the first chunk
\* is awaited, or the document has no chunk and the call returns
ProcessStart(p) ==
  /\ Running(p, "processKMADocument", "start")
  /\ LET document == Top(p).document
         documentChunks == createDocumentChunks(document.content,
                                                document.filename,
                                                document.title)
     IN  IF Len(documentChunks) > 0
         THEN /\ Log(p, "embed", documentChunks[1].content)
              /\ Goto(p, [Top(p) EXCEPT !.pc = "embed",
                                        !.documentChunks = documentChunks,
                                        !.k = 0])
         ELSE /\ ReturnTo(p, Ok(Processed(document, << >>)))
              /\ UNCHANGED stLog
  /\ UNCHANGED <<handleVars, envVars, storeVars, stSteady, otherVars>>

\* a failed embedding request skipped: the chunk gets no record
ProcessEmbedFails_Skips(p) ==
  /\ Running(p, "processKMADocument", "embed")
  /\ envEmbedding = "openai"
  /\ LET k == Top(p).k + 1
         chunks == Top(p).documentChunks
     IN  IF k < Len(chunks)
         THEN /\ stLog' = stLog \o <<Issued(p, "embed", chunks[k + 1].content)>>
              /\ Goto(p, [Top(p) EXCEPT !.k = k])
         ELSE /\ ReturnTo(p, Ok(Processed(Top(p).document,
                                          Top(p).vectorDocuments)))
              /\ UNCHANGED stLog
  /\ UNCHANGED <<handleVars, envVars, storeVars, stSteady, otherVars>>

\* line 121 rejects (the embedding request of the OpenAI variant failed):
\* the catch of lines 141-144 rethrows, nothing is returned
ProcessEmbedFails(p) ==
  /\ Running(p, "processKMADocument", "embed")
  /\ envEmbedding = "openai"
  /\ ReturnTo(p, Err(EmbeddingFailed))
  /\ UNCHANGED <<handleVars, envVars, storeVars, stSteady, stLog, otherVars>>

\* lines 120-140: the embedding of chunk k arrives and its vector document
\* is pushed; the embedding of the next chunk is awaited, or the call returns
ProcessEmbedded(p) ==
  /\ Running(p, "processKMADocument", "embed")
  /\ LET chunks == Top(p).documentChunks
         chunk == chunks[Top(p).k + 1]
         embedding == generateEmbedding(chunk.content)
         vectorDocuments == Append(Top(p).vectorDocuments,
                                   toVectorDocument(chunk, embedding))
         k == Top(p).k + 1
     IN  IF k < Len(chunks)
         THEN /\ stLog' = stLog \o <<Issued(p, "embedded", chunk.content),
                                     Issued(p, "embed", chunks[k + 1].content)>>
              /\ Goto(p, [Top(p) EXCEPT !.k = k,
                                        !.vectorDocuments = vectorDocuments])
         ELSE /\ stLog' = stLog \o <<Issued(p, "embedded", chunk.content)>>
              /\ ReturnTo(p, Ok(Processed(Top(p).document, vectorDocuments)))
  /\ UNCHANGED <<handleVars, envVars, storeVars, stSteady, otherVars>>

-----------------------------------------------------------------------------
(* loadAllKMADocuments and processAllKMADocuments *)

\* the next entry whatever its name
NextMd_AnyFile(files, f) == f

\* the position (0-based) of the first entry from position f on whose name
\* ends with '.md', Len(files) if there is none
RECURSIVE NextMd(_, _)
NextMd(files, f) ==
  IF f < Len(files) /\ ~EndsWith(files[f + 1], MdSuffix)
  THEN NextMd(files, f + 1) ELSE f

\* line 150: readdir is awaited
LoadAllStart(p) ==
  /\ Running(p, "loadAllKMADocuments", "start")
  /\ Log(p, "readdir", "public/docs/kma")
  /\ Goto(p, [Top(p) EXCEPT !.pc = "readdir"])
  /\ UNCHANGED <<handleVars, envVars, storeVars, stSteady, otherVars>>

\* line 150 rejects: the catch of lines 161-164 rethrows
LoadAllReaddirFails(p) ==
  /\ Running(p, "loadAllKMADocuments", "readdir")
  /\ ReturnTo(p, Err("readdir failure"))
  /\ UNCHANGED <<handleVars, envVars, storeVars, stSteady, stLog, otherVars>>

\* lines 150-155 and 88: the entries arrive; the first '.md' file is read,
\* or there is none and the empty list is returned
LoadAllListed(p) ==
  /\ Running(p, "loadAllKMADocuments", "readdir")
  /\ LET files == [k \in 1..Len(fsFiles) |-> fsFiles[k].name]
         f == NextMd(files, 0)
     IN  IF f < Len(files)
         THEN /\ Log(p, "readFile", files[f + 1])
              /\ Goto(p, [Top(p) EXCEPT !.pc = "readFile", !.files = files,
                                        !.f = f])
         ELSE /\ ReturnTo(p, Ok(<< >>))
              /\ UNCHANGED stLog
  /\ UNCHANGED <<handleVars, envVars, storeVars, stSteady, otherVars>>

\* line 88 rejects: the catches of lines 102-105 and 161-164 rethrow
LoadAllReadFails(p) ==
  /\ Running(p, "loadAllKMADocuments", "readFile")
  /\ ReturnTo(p, Err("readFile failure"))
  /\ UNCHANGED <<handleVars, envVars, storeVars, stSteady, stLog, otherVars>>

\* lines 88-101 and 152-160: the content arrives and the document is pushed;
\* the next '.md' file is read, or the documents are returned
LoadAllRead(p) ==
  /\ Running(p, "loadAllKMADocuments", "readFile")
  /\ LET files == Top(p).files
         document == loadKMADocument(files[Top(p).f + 1],
                                     fsFiles[Top(p).f + 1].content)
         documents == Append(Top(p).documents, document)
         f == NextMd(files, Top(p).f + 1)
     IN  IF f < Len(files)
         THEN /\ Log(p, "readFile", files[f + 1])
              /\ Goto(p, [Top(p) EXCEPT !.f = f, !.documents = documents])
         ELSE /\ ReturnTo(p, Ok(documents))
              /\ UNCHANGED stLog
  /\ UNCHANGED <<handleVars, envVars, storeVars, stSteady, otherVars>>

\* line 169: loadAllKMADocuments is awaited
ProcessAllStart(p) ==
  /\ Running(p, "processAllKMADocuments", "start")
  /\ CallFrom(p, [Top(p) EXCEPT !.pc = "loadAllKMADocuments"], LoadAllFrame)
  /\ UNCHANGED <<handleVars, envVars, storeVars, stSteady, stLog, otherVars>>

\* a failed document left out, the batch goes on
ProcessAllFails_SkipsDocument(p) ==
  /\ Running(p, "processAllKMADocuments", "processKMADocument")
  /\ Top(p).ret # None /\ ~Top(p).ret[1].ok
  /\ LET d == Top(p).d + 1
     IN  IF d < Len(Top(p).documents)
         THEN CallFrom(p, [Top(p) EXCEPT !.ret = None, !.d = d],
                       ProcessFrame(Top(p).documents[d + 1]))
         ELSE ReturnTo(p, Ok(Top(p).processedDocuments))
  /\ UNCHANGED <<handleVars, envVars, storeVars, stSteady, stLog, otherVars>>

\* an await of processAllKMADocuments rejects: the catch of lines 178-181
\* rethrows
ProcessAllFails(p) ==
  /\ ix[p] # << >> /\ Top(p).fn = "processAllKMADocuments"
  /\ Top(p).ret # None /\ ~Top(p).ret[1].ok
  /\ ReturnTo(p, Err(Top(p).ret[1].error))
  /\ UNCHANGED <<handleVars, envVars, storeVars, stSteady, stLog, otherVars>>

\* lines 169-173: the documents are loaded; the first is processed, or there
\* is none and the empty list is returned
ProcessAllLoaded(p) ==
  /\ Running(p, "processAllKMADocuments", "loadAllKMADocuments")
  /\ Top(p).ret # None /\ Top(p).ret[1].ok
  /\ LET documents == Top(p).ret[1].value
     IN  IF Len(documents) > 0
         THEN CallFrom(p, [Top(p) EXCEPT !.pc = "processKMADocument",
                                         !.ret = None,
                                         !.documents = documents, !.d = 0],
                       ProcessFrame(documents[1]))
         ELSE ReturnTo(p, Ok(<< >>))
  /\ UNCHANGED <<handleVars, envVars, storeVars, stSteady, stLog, otherVars>>

\* lines 172-177: a document is processed and pushed; the next one is
\* processed, or the list is returned
ProcessAllProcessed(p) ==
  /\ Running(p, "processAllKMADocuments", "processKMADocument")
  /\ Top(p).ret # None /\ Top(p).ret[1].ok
  /\ LET processedDocuments == Append(Top(p).processedDocuments,
                                      Top(p).ret[1].value)
         d == Top(p).d + 1
     IN  IF d < Len(Top(p).documents)
         THEN CallFrom(p, [Top(p) EXCEPT !.ret = None, !.d = d,
                              !.processedDocuments = processedDocuments],
                       ProcessFrame(Top(p).documents[d + 1]))
         ELSE ReturnTo(p, Ok(processedDocuments))
  /\ UNCHANGED <<handleVars, envVars, storeVars, stSteady, stLog, otherVars>>

-----------------------------------------------------------------------------
(* deleteDocumentsByFilename *)

DeleteByFilenameFrame(filename) == [fn |-> "deleteDocumentsByFilename", pc |-> "start", ret |-> None, filename |-> filename]

\* lines 449-456: getIndex(), then deleteMany is awaited
DeleteByFilenameStart(p) ==
  /\ Running(p, "deleteDocumentsByFilename", "start")
  /\ IF getIndex.ok
     THEN /\ DoGetIndex
          /\ Log(p, "deleteMany", Top(p).filename)
          /\ Goto(p, [Top(p) EXCEPT !.pc = "deleteMany"])
     ELSE /\ ReturnTo(p, Err(NoApiKey))
          /\ UNCHANGED <<handleVars, stLog>>
  /\ UNCHANGED <<envVars, storeVars, stSteady, otherVars>>

\* line 452 rejects: the catch of lines 459-462 rethrows
DeleteByFilenameFails(p) ==
  /\ Running(p, "deleteDocumentsByFilename", "deleteMany")
  /\ \E error \in DataErrors : ReturnTo(p, Err(error))
  /\ UNCHANGED <<handleVars, envVars, storeVars, stSteady, stLog, otherVars>>

\* lines 452-458: the store has removed the records of the file
DeleteByFilenameDone(p) ==
  /\ Running(p, "deleteDocumentsByFilename", "deleteMany")
  /\ DataReady
  /\ stRecords' = {r \in stRecords : r.metadata.filename # Top(p).filename}
  /\ ReturnTo(p, Ok("deleted"))
  /\ UNCHANGED <<handleVars, envVars, stIndex, stDim, stSteady, stLog,
                 otherVars>>

-----------------------------------------------------------------------------
(* POST /api/index-documents (app/api/index-documents/route.ts) *)

\* a destructured field with the default false
OrFalse(opt) == IF opt = None THEN FALSE ELSE opt[1]

RECURSIVE flatChunks(_)
\* processedDocuments.flatMap(doc => doc.chunks)
flatChunks(processedDocuments) ==
  IF processedDocuments = << >> THEN << >>
  ELSE Head(processedDocuments).chunks \o flatChunks(Tail(processedDocuments))

\* lines 38-47: documentStats
documentStats(processedDocuments, allChunks) ==
  [totalDocuments |-> Len(processedDocuments),
   totalChunks |-> Len(allChunks),
   documents |->
     [k \in 1..Len(processedDocuments) |->
        [filename |-> processedDocuments[k].document.filename,
         title |-> processedDocuments[k].document.title,
         alertType |-> processedDocuments[k].document.metadata.alertType,
         chunks |-> Len(processedDocuments[k].chunks)]]]

\* lines 51-55: the 200 response
IndexedResponse(stats) ==
  [status |-> 200,
   body |-> [success |-> TRUE, message |-> "Documents indexed successfully",
             stats |-> stats]]

\* lines 58-65: the 500 response
IndexFailedResponse(details) ==
  [status |-> 500,
   body |-> [success |-> FALSE, error |-> "Failed to index documents",
             details |-> details]]

PostFrame(request) == [fn |-> "POST", pc |-> "start", ret |-> None, request |-> request, reindex |-> FALSE, forceRecreate |-> FALSE, processedDocuments |-> << >>, allChunks |-> << >>, response |-> None]

\* the handler is awaiting a call that has settled
PostResumes(p, pc) == Running(p, "POST", pc) /\ Top(p).ret # None

\* the handler awaits a new call
PostAwaits(p, pc, frame) ==
  CallFrom(p, [Top(p) EXCEPT !.pc = pc, !.ret = None], frame)

\* line 7 rejects (the body is no JSON): the catch answers 500
PostParseFails(p) ==
  /\ Running(p, "POST", "start")
  /\ ~Top(p).request.json
  /\ Goto(p, [Top(p) EXCEPT !.pc = "done",
                !.response = Some(IndexFailedResponse("Unexpected end of JSON input"))])
  /\ UNCHANGED <<handleVars, envVars, storeVars, stSteady, stLog, otherVars>>

\* lines 7-18: the flags are read; deleteIndex is awaited if forceRecreate,
\* else initializeIndex
PostStart(p) ==
  /\ Running(p, "POST", "start")
  /\ Top(p).request.json
  /\ LET reindex == OrFalse(Top(p).request.reindex)
         forceRecreate == OrFalse(Top(p).request.forceRecreate)
         caller == [Top(p) EXCEPT !.reindex = reindex,
                                  !.forceRecreate = forceRecreate]
     IN  IF forceRecreate
         THEN CallFrom(p, [caller EXCEPT !.pc = "deleteIndex"],
                       DeleteIndexFrame)
         ELSE CallFrom(p, [caller EXCEPT !.pc = "initializeIndex"],
                       InitializeIndexFrame)
  /\ UNCHANGED <<handleVars, envVars, storeVars, stSteady, stLog, otherVars>>

\* lines 56-66: an awaited call rejects; the catch answers 500
PostFails(p) ==
  /\ ix[p] # << >> /\ Top(p).fn = "POST" /\ Top(p).pc # "done"
  /\ Top(p).ret # None /\ ~Top(p).ret[1].ok
  /\ Goto(p, [Top(p) EXCEPT !.pc = "done",
                !.response = Some(IndexFailedResponse(Top(p).ret[1].error))])
  /\ UNCHANGED <<handleVars, envVars, storeVars, stSteady, stLog, otherVars>>

\* lines 14-18: deleteIndex has returned; initializeIndex is awaited
PostIndexDeleted(p) ==
  /\ PostResumes(p, "deleteIndex") /\ Top(p).ret[1].ok
  /\ PostAwaits(p, "initializeIndex", InitializeIndexFrame)
  /\ UNCHANGED <<handleVars, envVars, storeVars, stSteady, stLog, otherVars>>

\* initializeIndex has returned; processAllKMADocuments is awaited whatever
\* the flags
PostInitialized_SkipsDeleteAll(p) ==
  /\ PostResumes(p, "initializeIndex") /\ Top(p).ret[1].ok
  /\ PostAwaits(p, "processAllKMADocuments", ProcessAllFrame)
  /\ UNCHANGED <<handleVars, envVars, storeVars, stSteady, stLog, otherVars>>

\* initializeIndex has returned; deleteAllDocuments is awaited whenever
\* reindex is set
PostInitialized_DeletesOnReindex(p) ==
  /\ PostResumes(p, "initializeIndex") /\ Top(p).ret[1].ok
  /\ IF Top(p).reindex
     THEN PostAwaits(p, "deleteAllDocuments", DeleteAllFrame)
     ELSE PostAwaits(p, "processAllKMADocuments", ProcessAllFrame)
  /\ UNCHANGED <<handleVars, envVars, storeVars, stSteady, stLog, otherVars>>

\* lines 18-29: initializeIndex has returned; deleteAllDocuments is awaited
\* if reindex && !forceRecreate, else processAllKMADocuments
PostInitialized(p) ==
  /\ PostResumes(p, "initializeIndex") /\ Top(p).ret[1].ok
  /\ IF Top(p).reindex /\ ~Top(p).forceRecreate
     THEN PostAwaits(p, "deleteAllDocuments", DeleteAllFrame)
     ELSE PostAwaits(p, "processAllKMADocuments", ProcessAllFrame)
  /\ UNCHANGED <<handleVars, envVars, storeVars, stSteady, stLog, otherVars>>

\* lines 24-29: deleteAllDocuments has returned; processAllKMADocuments is
\* awaited
PostAllDeleted(p) ==
  /\ PostResumes(p, "deleteAllDocuments") /\ Top(p).ret[1].ok
  /\ PostAwaits(p, "processAllKMADocuments", ProcessAllFrame)
  /\ UNCHANGED <<handleVars, envVars, storeVars, stSteady, stLog, otherVars>>

\* lines 29-36: the documents are processed; their chunks are flattened and
\* upsertDocuments is awaited
PostProcessed(p) ==
  /\ PostResumes(p, "processAllKMADocuments") /\ Top(p).ret[1].ok
  /\ LET processedDocuments == Top(p).ret[1].value
         allChunks == flatChunks(processedDocuments)
     IN  CallFrom(p, [Top(p) EXCEPT !.pc = "upsertDocuments",
                        !.ret = None,
                        !.processedDocuments = processedDocuments,
                        !.allChunks = allChunks],
                  UpsertFrame(allChunks))
  /\ UNCHANGED <<handleVars, envVars, storeVars, stSteady, stLog, otherVars>>

\* lines 36-55: upsertDocuments has returned; the handler answers 200 with
\* the statistics
PostUpserted(p) ==
  /\ PostResumes(p, "upsertDocuments") /\ Top(p).ret[1].ok
  /\ Goto(p, [Top(p) EXCEPT !.pc = "done",
                !.response = Some(IndexedResponse(
                   documentStats(Top(p).processedDocuments,
                                 Top(p).allChunks)))])
  /\ UNCHANGED <<handleVars, envVars, storeVars, stSteady, stLog, otherVars>>

-----------------------------------------------------------------------------
(* Requests to POST /api/index-documents: SpecIndex *)

GMd == <<"g", ".", "m", "d">>
KcdMd == <<"k", "_", "c", "_", "d", ".", "m", "d">>
NMdx == <<"n", ".", "m", "d", "x">>
OMd == <<"o", ".", "m", "d">>

\* "# a\na a": a header line and a body, two windows of DocChunkSize words
HeaderAndBody == <<"#", " ", "a", "\n", "a", " ", "a">>

File(name, content) == [name |-> name, content |-> content]

\* the knowledge-base directories of the model
Directories ==
  { << >>,
    << File(NMdx, <<"a">>) >>,
    << File(GMd, << >>) >>,
    << File(GMd, <<"a">>) >>,
    << File(GMd, HeaderAndBody), File(NMdx, <<"a">>), File(KcdMd, <<"a">>) >> }

\* a record left in the index by an earlier indexing run
OldRecord(filename, dim) ==
  toPineconeVector(
    toVectorDocument(
      MakeChunk(filename, <<"O">>, None, 0, 0, <<"o", "l", "d">>, 0),
      [length |-> dim, text |-> <<"o", "l", "d">>]))

\* what the index may hold before a request
OldRecordSets(dim) ==
  {{}, {OldRecord(GMd, dim)}, {OldRecord(GMd, dim), OldRecord(OMd, dim)}}

IndexRequests ==
  {[json |-> FALSE, reindex |-> None, forceRecreate |-> None]}
    \cup [json : {TRUE}, reindex : {None, Some(TRUE), Some(FALSE)},
          forceRecreate : {None, Some(TRUE), Some(FALSE)}]

\* the store before the run: no index, an index in creation, or a ready
\* index of either dimension with old records
InitStore ==
  /\ stIndex \in {"absent", "creating", "ready"}
  /\ stDim \in IF stIndex = "absent" THEN {0}
               ELSE {HashEmbeddingDim, IndexDimension}
  /\ stRecords \in IF stIndex = "ready" THEN OldRecordSets(stDim) ELSE {{}}
  /\ stSteady = FALSE
  /\ stLog = << >>

\* a process that has not touched the vector store yet
InitHandles ==
  /\ vsPinecone = None /\ vsConstructed = 0
  /\ vsIndex = None /\ vsHandles = 0

InitIndex ==
  /\ InitHandles
  /\ envApiKey \in BOOLEAN
  /\ envEmbedding \in {"hash", "openai"}
  /\ InitStore
  /\ fsFiles \in Directories
  /\ \E request \in IndexRequests :
       ix = [p \in Procs |-> IF p = 1 THEN <<PostFrame(request)>> ELSE << >>]
  /\ ctIdle /\ dcIdle /\ fmIdle /\ chIdle

NextIndex ==
  \/ StoreBecomesReady
  \/ \E p \in Procs :
       \/ PostParseFails(p) \/ PostStart(p) \/ PostFails(p)
       \/ PostIndexDeleted(p) \/ PostInitialized(p) \/ PostAllDeleted(p)
       \/ PostProcessed(p) \/ PostUpserted(p)
       \/ DeleteIndexStart(p) \/ DeleteIndexListFails(p)
       \/ DeleteIndexListed(p) \/ DeleteIndexDeleteFails(p)
       \/ DeleteIndexDeleted(p)
       \/ InitializeIndexStart(p) \/ InitializeIndexListFails(p)
       \/ InitializeIndexListed(p) \/ InitializeIndexCreateFails(p)
       \/ InitializeIndexCreated(p) \/ InitializeIndexPollReady(p)
       \/ InitializeIndexPollNotReady(p) \/ InitializeIndexPollError(p)
       \/ DeleteAllStart(p) \/ DeleteAllStatsFails(p) \/ DeleteAllStats(p)
       \/ DeleteAllDeleteFails(p) \/ DeleteAllDeleted(p)
       \/ ProcessAllStart(p) \/ ProcessAllFails(p) \/ ProcessAllLoaded(p)
       \/ ProcessAllProcessed(p)
       \/ LoadAllStart(p) \/ LoadAllReaddirFails(p) \/ LoadAllListed(p)
       \/ LoadAllReadFails(p) \/ LoadAllRead(p)
       \/ ProcessStart(p) \/ ProcessEmbedFails(p) \/ ProcessEmbedded(p)
       \/ UpsertStart(p) \/ UpsertBatchFails(p) \/ UpsertBatchDone(p)

SpecIndex == InitIndex /\ [][NextIndex]_vars

-----------------------------------------------------------------------------
(* Any sequence of vector-store operations in one process: SpecStore *)

\* a caller of the exported operations: the operation it awaits, how many it
\* has called, and in ret how the last one settled
CallerFrame == [fn |-> "caller", pc |-> "idle", ret |-> None, op |-> "", ops |-> 0]

\* a vector document as processKMADocument builds it from a one-chunk file
SampleDocument(filename) ==
  toVectorDocument(
    backfillTotal(<<MakeChunk(filename, <<"T">>, None, 0, 0, <<"a">>, 0)>>)[1],
    generateEmbedding(<<"a">>))

\* the calls a caller may issue
OperationFrames ==
  { InitializeIndexFrame, DeleteIndexFrame, DeleteAllFrame,
    UpsertFrame(<< >>), UpsertFrame(<<SampleDocument(KcdMd)>>),
    SearchFrame(<<"a">>, TopK), DeleteByFilenameFrame(GMd) }

\* the caller awaits one more operation; the log starts afresh with it
CallerCalls(p) ==
  /\ Running(p, "caller", "idle")
  /\ Top(p).ops < MaxOps
  /\ \E frame \in OperationFrames :
       CallFrom(p, [Top(p) EXCEPT !.ret = None, !.op = frame.fn,
                                  !.ops = @ + 1], frame)
  /\ stLog' = << >>
  /\ UNCHANGED <<handleVars, envVars, storeVars, stSteady, otherVars>>

InitStoreOps ==
  /\ InitHandles
  /\ envApiKey \in BOOLEAN
  /\ envEmbedding \in {"hash", "openai"}
  /\ InitStore
  /\ fsFiles = << >>
  /\ ix = [p \in Procs |-> IF p = 1 THEN <<CallerFrame>> ELSE << >>]
  /\ ctIdle /\ dcIdle /\ fmIdle /\ chIdle

StoreOpStep(p) ==
  \/ CallerCalls(p)
  \/ InitializeIndexStart(p) \/ InitializeIndexListFails(p)
  \/ InitializeIndexListed(p) \/ InitializeIndexCreateFails(p)
  \/ InitializeIndexCreated(p) \/ InitializeIndexPollReady(p)
  \/ InitializeIndexPollNotReady(p) \/ InitializeIndexPollError(p)
  \/ DeleteIndexStart(p) \/ DeleteIndexListFails(p)
  \/ DeleteIndexListed(p) \/ DeleteIndexDeleteFails(p)
  \/ DeleteIndexDeleted(p)
  \/ DeleteAllStart(p) \/ DeleteAllStatsFails(p) \/ DeleteAllStats(p)
  \/ DeleteAllDeleteFails(p) \/ DeleteAllDeleted(p)
  \/ UpsertStart(p) \/ UpsertBatchFails(p) \/ UpsertBatchDone(p)
  \/ SearchStart(p) \/ SearchEmbedFails(p) \/ SearchEmbedded(p)
  \/ SearchQueryFails(p) \/ SearchQueryReturns(p)
  \/ DeleteByFilenameStart(p) \/ DeleteByFilenameFails(p)
  \/ DeleteByFilenameDone(p)

NextStore ==
  \/ StoreBecomesReady
  \/ StoreSettles
  \/ \E p \in Procs : StoreOpStep(p)

SpecStore == InitStoreOps /\ [][NextStore]_vars

\* the event loop runs the continuation of a settled describeIndex
SpecStoreLive ==
  SpecStore /\ \A p \in Procs : WF_vars(InitializeIndexPollReady(p))

-----------------------------------------------------------------------------
(* Calls of upsertDocuments with up to MaxRecords records: SpecUpsert *)

\* the sections of the records: undefined, empty or a title
SampleSection(k) ==
  IF k % 3 = 0 THEN None ELSE IF k % 3 = 1 THEN Some(<<"S">>) ELSE Some(<< >>)

\* the k-th of n vector documents of one file
NumberedDocument(k, n) ==
  toVectorDocument(
    [MakeChunk(GMd, <<"T">>, SampleSection(k), 0, k - 1, <<"a">>, k - 1)
       EXCEPT !.metadata.totalChunks = n],
    generateEmbedding(<<"a">>))

NumberedDocuments(n) == [k \in 1..n |-> NumberedDocument(k, n)]

\* a caller about to call upsertDocuments(documents)
UpsertCallerFrame(documents) == [fn |-> "caller", pc |-> "idle", ret |-> None, op |-> "", ops |-> 0, documents |-> documents]

\* the caller awaits upsertDocuments(documents)
CallerUpserts(p) ==
  /\ Running(p, "caller", "idle")
  /\ Top(p).ops = 0
  /\ CallFrom(p, [Top(p) EXCEPT !.op = "upsertDocuments", !.ops = 1],
              UpsertFrame(Top(p).documents))
  /\ UNCHANGED <<handleVars, envVars, storeVars, stSteady, stLog, otherVars>>

InitUpsert ==
  /\ InitHandles
  /\ envApiKey \in BOOLEAN
  /\ envEmbedding \in {"hash", "openai"}
  /\ stIndex = "ready"
  /\ stDim \in {HashEmbeddingDim, IndexDimension}
  /\ stRecords \in {{}, {OldRecord(GMd, stDim)}}
  /\ stSteady = FALSE
  /\ stLog = << >>
  /\ fsFiles = << >>
  /\ \E n \in 0..MaxRecords :
       ix = [p \in Procs |-> IF p = 1
                             THEN <<UpsertCallerFrame(NumberedDocuments(n))>>
                             ELSE << >>]
  /\ ctIdle /\ dcIdle /\ fmIdle /\ chIdle

NextUpsert ==
  \E p \in Procs :
    \/ CallerUpserts(p)
    \/ UpsertStart(p) \/ UpsertBatchFails(p) \/ UpsertBatchDone(p)

SpecUpsert == InitUpsert /\ [][NextUpsert]_vars

-----------------------------------------------------------------------------
(* Calls of processKMADocument: SpecProcess *)

\* a caller about to call processKMADocument(document)
ProcessCallerFrame(document) == [fn |-> "caller", pc |-> "idle", ret |-> None, op |-> "", ops |-> 0, document |-> document]

\* the caller awaits processKMADocument(document)
CallerProcesses(p) ==
  /\ Running(p, "caller", "idle")
  /\ Top(p).ops = 0
  /\ CallFrom(p, [Top(p) EXCEPT !.op = "processKMADocument", !.ops = 1],
              ProcessFrame(Top(p).document))
  /\ UNCHANGED <<handleVars, envVars, storeVars, stSteady, stLog, otherVars>>

InitProcess ==
  /\ InitHandles
  /\ envApiKey = TRUE
  /\ envEmbedding \in {"hash", "openai"}
  /\ stIndex = "absent" /\ stDim = 0 /\ stRecords = {}
  /\ stSteady = FALSE
  /\ stLog = << >>
  /\ fsFiles = << >>
  /\ \E content \in DocContents, filename \in {GMd, KcdMd} :
       ix = [p \in Procs |->
               IF p = 1
               THEN <<ProcessCallerFrame(loadKMADocument(filename, content))>>
               ELSE << >>]
  /\ ctIdle /\ dcIdle /\ fmIdle /\ chIdle

NextProcess ==
  \E p \in Procs :
    \/ CallerProcesses(p)
    \/ ProcessStart(p) \/ ProcessEmbedFails(p) \/ ProcessEmbedded(p)

SpecProcess == InitProcess /\ [][NextProcess]_vars

-----------------------------------------------------------------------------
(* Claims on POST /api/index-documents, checked under SpecIndex *)

\* the handler call of process p, its state and its response
Post(p) == ix[p][1]
IsPost(p) == ix[p] # << >> /\ Post(p).fn = "POST"
PostDone(p) == IsPost(p) /\ Post(p).pc = "done"
PostResponse(p) == Post(p).response[1]
PostOk(p) == PostDone(p) /\ PostResponse(p).status = 200

\* the positions of the '.md' entries of the directory
MdPositions == {k \in 1..Len(fsFiles) : EndsWith(fsFiles[k].name, MdSuffix)}

\* the chunks of the file at position k of the directory
ChunksOfFile(k) ==
  LET document == loadKMADocument(fsFiles[k].name, fsFiles[k].content)
  IN  createDocumentChunks(document.content, document.filename,
                           document.title)

\* the record the store should hold for a chunk
RecordOfChunk(chunk) ==
  toPineconeVector(toVectorDocument(chunk, generateEmbedding(chunk.content)))

\* one record for every chunk of the current '.md' documents
CurrentRecords ==
  UNION {{RecordOfChunk(ChunksOfFile(k)[j]) : j \in 1..Len(ChunksOfFile(k))}
           : k \in MdPositions}

\* the chunks of the current '.md' documents, as (file, chunk) positions
CurrentChunks ==
  UNION {{<<k, j>> : j \in 1..Len(ChunksOfFile(k))} : k \in MdPositions}

\* the calls of one kind that process p has issued, in order
CallsOf(p, call) == SelectSeq(stLog, LAMBDA e : e.call = call /\ e.by = p)

RECURSIVE SumOf(_)
\* the sum of a sequence of numbers
SumOf(ns) == IF ns = << >> THEN 0 ELSE Head(ns) + SumOf(Tail(ns))

\* the number of records process p has passed to the store's upsert
RecordsSent(p) ==
  SumOf([k \in 1..Len(CallsOf(p, "upsert")) |->
           Len(CallsOf(p, "upsert")[k].arg)])

\* C11: after a successful POST /api/index-documents with reindex or
\* forceRecreate set, whatever the index held before, the store holds one
\* record for every chunk of the current .md documents and no other record,
\* and the number of stored records is stats.totalChunks.
C11_StoreHoldsCurrentChunks ==
  \A p \in Procs :
    (/\ PostOk(p)
     /\ (Post(p).request.reindex = Some(TRUE)
           \/ Post(p).request.forceRecreate = Some(TRUE)))
      => /\ stRecords = CurrentRecords
         /\ Cardinality(stRecords) = Cardinality(CurrentChunks)
         /\ Cardinality(stRecords) = PostResponse(p).body.stats.totalChunks

\* C11 witness: a successful reindex (without forceRecreate) that has issued
\* deleteAll against old records and left the three chunks of two documents
C11_Witness ==
  /\ PostOk(1)
  /\ Post(1).request.reindex = Some(TRUE)
  /\ Post(1).request.forceRecreate # Some(TRUE)
  /\ CallsOf(1, "deleteAll") # << >>
  /\ Cardinality(stRecords) = 3

\* the failures that do not stem from a document
NotOfDocuments ==
  {"Unexpected end of JSON input", NoApiKey, "store failure", "404",
   "409 index exists", "readdir failure"}

\* C12: a successful POST /api/index-documents reports totalDocuments = the
\* number of .md files of the directory and totalChunks = the sum of the
\* per-document chunks counts = the number of records passed to upsert; with
\* no .md file no upsert call is issued, the 200 answer reports 0 and 0, and
\* the request fails only on a failure that does not stem from a document.
C12_StatsCountDocuments ==
  \A p \in Procs :
    /\ PostOk(p) =>
         LET stats == PostResponse(p).body.stats
         IN  /\ stats.totalDocuments = Cardinality(MdPositions)
             /\ Len(stats.documents) = Cardinality(MdPositions)
             /\ stats.totalChunks =
                  SumOf([k \in 1..Len(stats.documents) |->
                           stats.documents[k].chunks])
             /\ stats.totalChunks = RecordsSent(p)
    /\ MdPositions = {} => CallsOf(p, "upsert") = << >>
    /\ (MdPositions = {} /\ PostDone(p)) =>
         IF PostResponse(p).status = 200
         THEN /\ PostResponse(p).body.stats.totalDocuments = 0
              /\ PostResponse(p).body.stats.totalChunks = 0
         ELSE PostResponse(p).body.details \in NotOfDocuments

\* C12 witness: a 200 answer for a directory that holds one file, which is
\* no .md file
C12_Witness ==
  /\ PostOk(1)
  /\ Len(fsFiles) = 1 /\ MdPositions = {}
  /\ PostResponse(1).body.stats.totalDocuments = 0
  /\ CallsOf(1, "readdir") # << >>

\* the failures of loading or processing a document
DocumentFailures == {"readdir failure", "readFile failure", EmbeddingFailed}

\* process p is inside call fn, which has just seen an awaited call reject
SeesRejection(p, fn) ==
  /\ ix[p] # << >> /\ Top(p).fn = fn /\ Top(p).pc # "done"
  /\ Top(p).ret # None /\ ~Top(p).ret[1].ok

\* C13, the states: processAllKMADocuments returns all documents or none;
\* upsert is called only with all of them; the 500 for a document failure
\* says success: false and no upsert was called
C13_AllOrNothing ==
  \A p \in Procs :
    /\ (/\ IsPost(p) /\ Len(ix[p]) = 1
        /\ Post(p).pc = "processAllKMADocuments"
        /\ Post(p).ret # None /\ Post(p).ret[1].ok)
         => Len(Post(p).ret[1].value) = Cardinality(MdPositions)
    /\ CallsOf(p, "upsert") # << >> =>
         /\ IsPost(p) /\ Post(p).pc \in {"upsertDocuments", "done"}
         /\ Len(Post(p).processedDocuments) = Cardinality(MdPositions)
    /\ (PostDone(p) /\ PostResponse(p).status = 500
          /\ PostResponse(p).body.details \in DocumentFailures)
         => /\ PostResponse(p).body.success = FALSE
            /\ CallsOf(p, "upsert") = << >>

\* C13, the steps: a rejection seen by processAllKMADocuments is raised to
\* its caller, and a rejection seen by the handler is answered with 500
C13_RejectionPropagates ==
  \A p \in Procs :
    /\ (SeesRejection(p, "processAllKMADocuments") /\ ix'[p] # ix[p])
         => /\ Len(ix'[p]) = Len(ix[p]) - 1
            /\ ix'[p][Len(ix'[p])].ret = Some(Err(Top(p).ret[1].error))
    /\ (SeesRejection(p, "POST") /\ ix'[p] # ix[p])
         => /\ Len(ix'[p]) = 1
            /\ ix'[p][1].pc = "done"
            /\ ix'[p][1].response
                 = Some(IndexFailedResponse(Top(p).ret[1].error))

\* C13: if loading or processing of a single .md file fails,
\* processAllKMADocuments raises and returns no document, the POST answers
\* 500 with success: false, and no record is upserted in that request.
C13_FailureAbortsBatch ==
  []C13_AllOrNothing /\ [][C13_RejectionPropagates]_vars

\* C13 witness: a 500 answer for a failed embedding request that came after
\* a successful one
C13_Witness ==
  /\ PostDone(1) /\ PostResponse(1).status = 500
  /\ PostResponse(1).body.details = EmbeddingFailed
  /\ CallsOf(1, "embedded") # << >>
  /\ CallsOf(1, "upsert") = << >>

\* C17: every vector passed to the store's upsert, and every vector sent
\* as a query, has the length of the dimension declared by the createIndex
\* call of initializeIndex (1536).
C17_AsStated ==
  \A k \in 1..Len(stLog) :
    /\ stLog[k].call = "upsert" =>
         \A j \in 1..Len(stLog[k].arg) :
           stLog[k].arg[j].values.length = IndexDimension
    /\ stLog[k].call = "query" =>
         stLog[k].arg.vector.length = IndexDimension

-----------------------------------------------------------------------------
(* Claims on the vector-store operations, checked under SpecStore *)

\* the caller of process p has seen its call of op settle
Returned(p, op) ==
  /\ Len(ix[p]) = 1 /\ ix[p][1].fn = "caller"
  /\ ix[p][1].op = op /\ ix[p][1].ret # None

\* how the last call of the caller of process p settled
Outcome(p) == ix[p][1].ret[1]

\* C14: initializeIndex issues createIndex only when INDEX_NAME is not in
\* the store's list; whenever it returns without error the index exists and
\* is ready; when the index exists already it creates nothing and does not
\* poll.
C14_AsStated ==
  \A p \in Procs :
    /\ Running(p, "initializeIndex", "createIndex") => stIndex = "absent"
    /\ Running(p, "initializeIndex", "describeIndex") =>
         CallsOf(p, "createIndex") # << >>
    /\ (Returned(p, "initializeIndex") /\ Outcome(p).ok) =>
         /\ stIndex = "ready"
         /\ CallsOf(p, "createIndex") = << >> =>
              CallsOf(p, "describeIndex") = << >>

\* C16: deleteAllDocuments leaves no record when it returns; it returns
\* without raising when the store reports no vector or answers 404 (which
\* it does only while it holds no record), calls deleteAll only for a
\* positive count, and raises every other failure.
C16_DeleteAllEmpties ==
  \A p \in Procs :
    /\ Running(p, "deleteAllDocuments", "deleteAll") => stRecords # {}
    /\ (Returned(p, "deleteAllDocuments") /\ Outcome(p).ok) =>
         /\ stRecords = {}
         /\ IF Outcome(p).value = "All documents deleted from Pinecone"
            THEN Len(CallsOf(p, "deleteAll")) = 1
            ELSE CallsOf(p, "deleteAll") = << >>
    /\ (Returned(p, "deleteAllDocuments") /\ ~Outcome(p).ok) =>
         /\ ~Includes404(Outcome(p).error)
         /\ Outcome(p).error \in {NoApiKey, "store failure"}

\* C16 witness: deleteAllDocuments has returned after the store's 404
\* answer on an index without a record
C16_Witness ==
  /\ Returned(1, "deleteAllDocuments") /\ Outcome(1).ok
  /\ Outcome(1).value = "Index is empty, no documents to delete"
  /\ stIndex = "ready" /\ stRecords = {}

\* the calls made through the index handle
DataCalls == {"upsert", "query", "describeIndexStats", "deleteAll", "deleteMany"}

\* C18, the states: at most one client is ever constructed
C18_OneClient ==
  /\ vsConstructed <= 1
  /\ vsPinecone = (IF vsConstructed = 0 THEN None ELSE Some(1))
  /\ vsIndex # None => vsIndex = Some(vsHandles) /\ vsPinecone # None

\* C18, the steps: a cached client stays; the index handle changes only from
\* null to a new handle, or to null in the step of a deleteIndex call that
\* found the index and sees it deleted; a handle is created only while none
\* is cached, and every call through the handle is made with the cached one
C18_HandleSteps ==
  /\ vsPinecone # None => vsPinecone' = vsPinecone
  /\ vsIndex' # vsIndex =>
       \/ /\ vsIndex = None /\ vsIndex' = Some(vsHandles + 1)
       \/ /\ vsIndex' = None
          /\ \E p \in Procs : Running(p, "deleteIndex", "deleteIndex")
          /\ stIndex # "absent" /\ stIndex' = "absent"
  /\ vsHandles' # vsHandles => vsIndex = None /\ vsHandles' = vsHandles + 1
  /\ (Len(stLog') = Len(stLog) + 1 /\ stLog'[Len(stLog')].call \in DataCalls)
       => /\ vsIndex' # None
          /\ vsIndex # None => vsIndex' = vsIndex

\* C18: over any sequence of vector-store operations of one process the
\* Pinecone client is constructed at most once and reused, and the cached
\* index handle is reused by every later operation and reset only by a
\* deleteIndex call that found and deleted the index.
C18_HandlesCached == []C18_OneClient /\ [][C18_HandleSteps]_vars

\* C18 witness: a second handle, created after a reset, from the one client
C18_Witness ==
  /\ vsHandles = 2 /\ vsIndex = Some(2)
  /\ vsConstructed = 1 /\ vsPinecone = Some(1)

\* process p is in the readiness poll of initializeIndex
Polling(p) == Running(p, "initializeIndex", "describeIndex")

\* C20, the states: as long as the store is not settled, one more
\* describeIndex can always follow (up to MaxPolls in the model)
C20_CanPollAgain ==
  \A p \in Procs :
    (Polling(p) /\ ~stSteady /\ Top(p).polls < MaxPolls) =>
      ENABLED InitializeIndexPollError(p)

\* C20, the steps: the poll is left only by returning without error, on a
\* describeIndex that reports ready; every other step of the poll issues
\* the next describeIndex
C20_PollSteps ==
  \A p \in Procs :
    (Polling(p) /\ ix'[p] # ix[p]) =>
      \/ /\ stIndex = "ready"
         /\ Len(ix'[p]) = Len(ix[p]) - 1
         /\ ix'[p][Len(ix'[p])].ret = Some(Ok("initialized"))
      \/ /\ Len(ix'[p]) = Len(ix[p])
         /\ ix'[p][Len(ix'[p])] = [Top(p) EXCEPT !.polls = @ + 1]
         /\ stLog' = Append(stLog, Issued(p, "describeIndex", Top(p).polls + 1))

\* C20: the readiness poll of initializeIndex ends only when describeIndex
\* reports ready; a describeIndex error never aborts it; the number of polls
\* has no bound; and once the store answers every describeIndex with ready,
\* initializeIndex returns.
C20_PollEndsOnlyWhenReady ==
  /\ []C20_CanPollAgain
  /\ [][C20_PollSteps]_vars
  /\ \A p \in Procs : (Polling(p) /\ stSteady) ~> ~Polling(p)

\* C20 witness: initializeIndex has returned after MaxPolls describeIndex
\* calls
C20_Witness ==
  /\ Returned(1, "initializeIndex") /\ Outcome(1).ok
  /\ Len(CallsOf(1, "describeIndex")) = MaxPolls

-----------------------------------------------------------------------------
(* Claims on upsertDocuments, checked under SpecUpsert *)

\* ceil(n / batchSize)
BatchesNeeded(n) == (n + batchSize - 1) \div batchSize

\* the store holds every vector of the batch as it was sent
Stored(batch) == StoreUpsert(stRecords, batch) = stRecords

\* C15: upsertDocuments(records) with n records issues exactly
\* ceil(n / 100) upsert calls, one after another: call k carries records
\* 100 (k - 1) + 1 .. min(100 k, n) of the input in their order (so at most
\* 100, and every record in exactly one batch), call k + 1 is issued only
\* when the store has written batch k, and a failing batch raises with no
\* later batch sent.
C15_SequentialBatches ==
  \A p \in Procs :
    ix[p] # << >> =>
      LET vectors == toPineconeVectors(ix[p][1].documents)
          n == Len(vectors)
          calls == CallsOf(p, "upsert")
          c == Len(calls)
      IN  /\ c <= BatchesNeeded(n)
          /\ \A k \in 1..c :
               /\ calls[k].arg =
                    SubSeq(vectors, batchSize * (k - 1) + 1,
                           Min(batchSize * k, n))
               /\ Len(calls[k].arg) \in 1..batchSize
               /\ k < c => Stored(calls[k].arg)
          /\ Running(p, "upsertDocuments", "upsert") =>
               /\ c >= 1
               /\ Top(p).i = batchSize * (c - 1)
          /\ Returned(p, "upsertDocuments") =>
               IF Outcome(p).ok
               THEN /\ c = BatchesNeeded(n)
                    /\ c > 0 => Stored(calls[c].arg)
               ELSE \/ c = 0 /\ Outcome(p).error = NoApiKey
                    \/ c >= 1 /\ Outcome(p).error \in {"store failure",
                                                       "dimension mismatch"}

\* C15 witness: 2 * batchSize + 1 records were written in three calls, the
\* last with one record
C15_Witness ==
  /\ Returned(1, "upsertDocuments") /\ Outcome(1).ok
  /\ Len(ix[1][1].documents) = 2 * batchSize + 1
  /\ Len(CallsOf(1, "upsert")) = 3
  /\ Len(CallsOf(1, "upsert")[3].arg) = 1

-----------------------------------------------------------------------------
(* Claims on processKMADocument, checked under SpecProcess *)

\* the calls process p has issued and the answers it has consumed
LogOf(p) == SelectSeq(stLog, LAMBDA e : e.by = p)

\* C19: processKMADocument returns one vector record per chunk of
\* createDocumentChunks, in chunk order, each with the chunk's id, content,
\* filename, title, section, chunkIndex and totalChunks and the embedding of
\* its content; the embedding requests go out one at a time in chunk order,
\* request k + 1 after the answer to request k; a failed request raises and
\* no record is returned.
C19_OneRecordPerChunk ==
  \A p \in Procs :
    ix[p] # << >> =>
      LET document == ix[p][1].document
          chunks == createDocumentChunks(document.content, document.filename,
                                         document.title)
          n == Len(chunks)
          log == LogOf(p)
      IN  /\ Len(log) <= 2 * n
          /\ \A j \in 1..Len(log) :
               log[j] = Issued(p, IF j % 2 = 1 THEN "embed" ELSE "embedded",
                               chunks[(j + 1) \div 2].content)
          /\ Running(p, "processKMADocument", "embed") => Len(log) % 2 = 1
          /\ Returned(p, "processKMADocument") =>
               IF Outcome(p).ok
               THEN LET records == Outcome(p).value.chunks
                    IN  /\ Outcome(p).value.document = document
                        /\ Len(log) = 2 * n
                        /\ Len(records) = n
                        /\ \A k \in 1..n :
                             /\ records[k].id = chunks[k].id
                             /\ records[k].values =
                                  generateEmbedding(chunks[k].content)
                             /\ records[k].metadata =
                                  [filename |-> document.filename,
                                   title |-> document.title,
                                   content |-> chunks[k].content,
                                   section |-> chunks[k].metadata.section,
                                   chunkIndex |-> chunks[k].metadata.chunkIndex,
                                   totalChunks |-> n]
               ELSE /\ Outcome(p) = Err(EmbeddingFailed)
                    /\ Len(log) % 2 = 1

\* C19 witness: the embedding request of a second or later chunk failed
\* after the record of the first chunk was built
C19_Witness ==
  /\ Returned(1, "processKMADocument") /\ ~Outcome(1).ok
  /\ Len(LogOf(1)) >= 3

-----------------------------------------------------------------------------
(* Calls of chunkText with any overlap, run to their end: SpecChunkLive *)

\* the texts of these calls: their words matter only by their number
WordTexts == StringsUpTo({"a", " "}, MaxTextLen)

InitChunkLive ==
  /\ ctPc = "call"
  /\ ctText \in WordTexts
  /\ ctSize \in 0..MaxChunkSize
  /\ ctOverlap \in 0..(MaxChunkSize + 1)
  /\ ctWords = << >> /\ ctI = 0 /\ ctChunks = << >> /\ ctResult = << >>
  /\ dcIdle /\ fmIdle /\ chIdle /\ vsIdle

\* a synchronous call keeps running: a step that can be taken is taken
SpecChunkLive == InitChunkLive /\ [][NextChunk]_vars /\ WF_vars(NextChunk)

\* the call has more than chunkSize words and an overlap of chunkSize or more
Stalling ==
  /\ ctPc # "idle"
  /\ ctOverlap >= ctSize
  /\ Len(Split(ctText)) > ctSize

\* C21, a call that stalls: it has not returned; in its loop the window
\* start is at most 0 and the window ends before the last word, so the loop
\* condition holds, the break test fails and one more iteration follows
C21_StallingNeverReturns ==
  Stalling =>
    /\ ctPc # "returned"
    /\ ctPc = "loop" =>
         /\ ctI <= 0
         /\ ctI < Len(ctWords)
         /\ ~LastWindow(ctWords, ctI, ctSize)
         /\ Len(ctChunks) < MaxIterations => ENABLED ChunkTextIterate

\* C21, the steps of the loop: with overlap < chunkSize the window start
\* grows in every iteration that does not return; in a call that stalls it
\* never grows
C21_WindowStartSteps ==
  (ctPc = "loop" /\ ctPc' = "loop") =>
    /\ Len(ctChunks') = Len(ctChunks) + 1
    /\ ctOverlap < ctSize => ctI' > ctI
    /\ Stalling => ctI' <= ctI

\* C21: chunkText returns for every text whenever 0 <= overlap < chunkSize,
\* the window start growing until the window reaches the end; for a text of
\* more than chunkSize words and overlap >= chunkSize the window start never
\* advances and the call never returns.
C21_TerminatesIffOverlapSmaller ==
  /\ (ctPc = "call" /\ ctOverlap < ctSize) ~> (ctPc = "returned")
  /\ [][C21_WindowStartSteps]_vars
  /\ []C21_StallingNeverReturns

\* C21 witness: a call with overlap > chunkSize after MaxIterations
\* iterations, its window start below 0
C21_Witness ==
  /\ Stalling /\ ctPc = "loop"
  /\ ctOverlap > ctSize /\ ctSize > 0
  /\ ctI < 0
  /\ Len(ctChunks) = MaxIterations

-----------------------------------------------------------------------------
(* Claims on the order of the operations of a request, under SpecIndex *)

\* the flags of the request of process p as the handler reads them
ForceRecreate(p) ==
  Post(p).request.json /\ Post(p).request.forceRecreate = Some(TRUE)
Reindex(p) == Post(p).request.json /\ Post(p).request.reindex = Some(TRUE)

\* the store calls each awaited operation of the handler may issue
CallsIn(pc) ==
  CASE pc = "deleteIndex" -> {"listIndexes", "deleteIndex"}
    [] pc = "initializeIndex" -> {"listIndexes", "createIndex", "describeIndex"}
    [] pc = "deleteAllDocuments" -> {"describeIndexStats", "deleteAll"}
    [] pc = "processAllKMADocuments" ->
         {"readdir", "readFile", "embed", "embedded"}
    [] pc = "upsertDocuments" -> {"upsert"}
    [] OTHER -> {}

\* the operations the handler of process p may await after the one at pc
FollowersOf(p, pc) ==
  CASE pc = "start" ->
         IF ~Post(p).request.json THEN {"done"}
         ELSE IF ForceRecreate(p) THEN {"deleteIndex"}
         ELSE {"initializeIndex"}
    [] pc = "deleteIndex" -> {"initializeIndex", "done"}
    [] pc = "initializeIndex" ->
         IF Reindex(p) /\ ~ForceRecreate(p)
         THEN {"deleteAllDocuments", "done"}
         ELSE {"processAllKMADocuments", "done"}
    [] pc = "deleteAllDocuments" -> {"processAllKMADocuments", "done"}
    [] pc = "processAllKMADocuments" -> {"upsertDocuments", "done"}
    [] pc = "upsertDocuments" -> {"done"}
    [] OTHER -> {}

\* initializeIndex of the request of process p has not returned yet
BeforeInitialized(p) ==
  Post(p).pc \in {"start", "deleteIndex", "initializeIndex"}

\* C22, the states: the operation running for the handler is the one it
\* awaits; before initializeIndex has returned the request has issued no
\* upsert and no delete-all call; with forceRecreate it never issues a
\* delete-all call; with both flags false it issues no deleting call
C22_CallsByPhase ==
  \A p \in Procs :
    IsPost(p) =>
      /\ Len(ix[p]) >= 2 => ix[p][2].fn = Post(p).pc
      /\ \A call \in {"upsert", "describeIndexStats", "deleteAll"} :
           /\ BeforeInitialized(p) => CallsOf(p, call) = << >>
           /\ (ForceRecreate(p) /\ call # "upsert") => CallsOf(p, call) = << >>
      /\ ForceRecreate(p) => Post(p).pc # "deleteAllDocuments"
      /\ ~ForceRecreate(p) =>
           /\ Post(p).pc # "deleteIndex"
           /\ CallsOf(p, "deleteIndex") = << >>
      /\ ~Reindex(p) =>
           /\ Post(p).pc # "deleteAllDocuments"
           /\ CallsOf(p, "deleteAll") = << >>

\* C22, the steps: the handler moves from one awaited operation to one of
\* its followers; a call is issued by the operation that is awaited; with
\* both flags false no store step removes the index or the record of an id
C22_PhaseSteps ==
  \A p \in Procs :
    IsPost(p) =>
      /\ Post(p).pc' # Post(p).pc => Post(p).pc' \in FollowersOf(p, Post(p).pc)
      /\ \A k \in (Len(stLog) + 1)..Len(stLog') :
           stLog'[k].by = p => stLog'[k].call \in CallsIn(Post(p).pc)
      /\ (~ForceRecreate(p) /\ ~Reindex(p)) =>
           /\ stIndex # "absent" => stIndex' # "absent"
           /\ {r.id : r \in stRecords} \subseteq {r.id : r \in stRecords'}

\* C22: in every run of POST /api/index-documents the store operations
\* come in the order deleteIndex (only if forceRecreate), initializeIndex,
\* deleteAllDocuments (only if reindex and not forceRecreate), document
\* loading and embedding, upsert; no upsert or delete-all is issued before
\* initializeIndex has returned, deleteAllDocuments is never called with
\* forceRecreate, and with both flags false nothing is deleted.
C22_OperationOrder == []C22_CallsByPhase /\ [][C22_PhaseSteps]_vars

\* C22 witness: a request with reindex and without forceRecreate answered
\* 200 after a delete-all call and an upsert call
C22_Witness ==
  /\ PostOk(1) /\ Reindex(1) /\ ~ForceRecreate(1)
  /\ CallsOf(1, "deleteAll") # << >>
  /\ CallsOf(1, "upsert") # << >>
  /\ CallsOf(1, "createIndex") = << >>

-----------------------------------------------------------------------------
(* Two requests to POST /api/index-documents in one process: SpecIndexPair *)

\* the bodies of the two requests: each flag absent or true (the first
\* request is one without reindex: the two play the same part)
PairRequests ==
  [json : {TRUE}, reindex : {None, Some(TRUE)},
   forceRecreate : {None, Some(TRUE)}]

\* both handlers are entered before either has passed its first await; the
\* module has touched no store yet, the store has no index, and the
\* directory holds no document
InitIndexPair ==
  /\ InitHandles
  /\ envApiKey = TRUE
  /\ envEmbedding = "openai"
  /\ stIndex = "absent" /\ stDim = 0 /\ stRecords = {}
  /\ stSteady = FALSE
  /\ stLog = << >>
  /\ fsFiles = << >>
  /\ \E first \in {r \in PairRequests : r.reindex = None},
        second \in PairRequests :
       ix = [p \in Procs |-> <<PostFrame(IF p = 1 THEN first ELSE second)>>]
  /\ ctIdle /\ dcIdle /\ fmIdle /\ chIdle

\* the steps of either request, interleaved at the await points, against
\* a store that fails no call by itself: a call is rejected only where the
\* state of the index leaves the store no other answer (a createIndex for a
\* name that is taken, a describeIndexStats on an index that is not there
\* or not ready). The
\* directory is empty, a request takes no step on a document.
NextIndexPair ==
  \/ StoreBecomesReady
  \/ \E p \in Procs :
       \/ PostStart(p) \/ PostFails(p)
       \/ PostIndexDeleted(p) \/ PostInitialized(p) \/ PostAllDeleted(p)
       \/ PostProcessed(p) \/ PostUpserted(p)
       \/ DeleteIndexStart(p) \/ DeleteIndexListed(p)
       \/ DeleteIndexDeleted(p)
       \/ InitializeIndexStart(p) \/ InitializeIndexListed(p)
       \/ (stIndex # "absent" /\ InitializeIndexCreateFails(p))
       \/ InitializeIndexCreated(p) \/ InitializeIndexPollReady(p)
       \/ InitializeIndexPollNotReady(p)
       \/ DeleteAllStart(p) \/ DeleteAllStats(p)
       \/ (~DataReady /\ DeleteAllStatsFails(p))
       \/ ProcessAllStart(p) \/ ProcessAllLoaded(p)
       \/ LoadAllStart(p) \/ LoadAllListed(p)
       \/ UpsertStart(p)

SpecIndexPair == InitIndexPair /\ [][NextIndexPair]_vars

\* C23: in every interleaving of two concurrent POST /api/index-documents
\* requests that start with no index, no createIndex call is pending
\* against an index that exists, and, the store failing no call by itself,
\* neither request is answered with a failure.
C23_AsStated ==
  \A p \in Procs :
    /\ Running(p, "initializeIndex", "createIndex") => stIndex = "absent"
    /\ PostDone(p) => PostResponse(p).status = 200

-----------------------------------------------------------------------------
(* Coverage of the input by the chunks of chunkText, under SpecChunk *)

\* the words of a chunk without its first k words
DropWords(ws, k) == SubSeq(ws, k + 1, Len(ws))

RECURSIVE Rejoined(_)
\* the first k returned chunks joined: the words of the first, then the words
\* of each later one without its first `overlap` words
Rejoined(k) ==
  IF k = 0 THEN << >>
  ELSE IF k = 1 THEN ChunkWords(1)
  ELSE Rejoined(k - 1) \o DropWords(ChunkWords(k), ctOverlap)

\* C24: for any text and 0 <= overlap < chunkSize the returned chunks cover
\* the input without loss: the first chunk starts at the first word, every
\* word of the input occurs in a chunk, and the first chunk followed by each
\* later chunk without its first `overlap` words is the word sequence of the
\* input.
C24_ChunksCoverInput ==
  (ctPc = "returned" /\ 0 <= ctOverlap /\ ctOverlap < ctSize) =>
    LET words == Split(ctText)
        n == Len(ctResult)
    IN  /\ n >= 1
        /\ ChunkWords(1) = SubSeq(words, 1, Len(ChunkWords(1)))
        /\ \A j \in 1..Len(words) :
             \E k \in 1..n :
               \E m \in 1..Len(ChunkWords(k)) : ChunkWords(k)[m] = words[j]
        /\ \A k \in 2..n : Len(ChunkWords(k)) > ctOverlap
        /\ Rejoined(n) = words

\* C24 witness: 'a b c d e' with chunkSize 3 and overlap 2 returned as three
\* chunks
C24_Witness ==
  /\ ctPc = "returned" /\ ctText = ExampleText
  /\ ctSize = 3 /\ ctOverlap = 2
  /\ Len(ctResult) = 3

=============================================================================
